---- MODULE Spec2Model ----
(***************************************************************************)
(* A model of babel's CLDR plural support (src/babel/plural.py) and of its  *)
(* message catalogs (src/babel/messages/catalog.py).                       *)
(*                                                                         *)
(* Text is a sequence of one-character strings, so that tokenizing,        *)
(* parsing, rendering and comparing text are computed character by         *)
(* character.  A raised exception is a record [ok, kind, msg, text].       *)
(***************************************************************************)
EXTENDS Integers, Sequences, FiniteSets, TLC

VARIABLES
    rules,      \* the argument given to PluralRule(...): a sequence of <<tag, expr>>
    pc,         \* "new" | "built" (a PluralRule exists) | "failed" (__init__ raised)
    abstract,   \* PluralRule.abstract: a sequence of <<tag, ast>>
    func,       \* PluralRule._func: [set |-> FALSE] or the compiled evaluator
    ret,        \* the outcome of the last operation on the instance
    ptext,      \* the string handed to _Parser(string)
    parser,     \* the _Parser object after __init__, or the exception it raised
    ma, mb,     \* the arguments of cldr_modulo(a, b)
    mr,         \* what cldr_modulo returned: [done, val]
    fin,        \* the arguments of a module-level function called on its own
    fout,       \* what each function called on fin returned or raised
    twin,       \* a second PluralRule instance: [pc, rules, abstract, func]
    catalog,    \* a Catalog: [messages, obsolete, header, fuzzy]
    cret,       \* the last operation on the catalog, its arguments and outcome
    added,      \* the keys stored in the catalog so far, in the order first added
    cops,       \* the number of operations done on the catalog
    threads     \* the threads that call the PluralRule instance: [pc, n, tmp, res]

\* the variables of the PluralRule instance, of _Parser and of cldr_modulo
plural_vars == <<rules, pc, abstract, func, ret, ptext, parser, ma, mb, mr>>
\* the variables of the Catalog
catalog_vars == <<catalog, cret, added, cops>>
\* the variables of the other parts of the model
rest_vars == <<fin, fout, twin, catalog, cret, added, cops, threads>>

vars ==
    <<rules, pc, abstract, func, ret, ptext, parser, ma, mb, mr, fin, fout, twin,
      catalog, cret, added, cops, threads>>

(***************************************************************************)
(* Bounds of the model.                                                    *)
(***************************************************************************)
MaxRules == 2      \* most <<tag, expr>> pairs in one constructor argument
MaxNumber == 2     \* numbers classified are -MaxNumber..MaxNumber
MaxModArg == 7     \* cldr_modulo is applied to -MaxModArg..MaxModArg
MaxTrailing == 2   \* most tokens put after a complete condition
MaxRangeValue == 2 \* the bounds of a range list are 1..MaxRangeValue
MaxRangeItems == 2 \* most items in a range list
MaxFraction == 2   \* most fraction digits of a number
MaxOps == 4        \* most operations on a catalog
MaxText == 4       \* most characters of a text given to tokenize_rule on its own
MaxPieces == 2     \* most pieces of a source given to the JavaScript tokenize

(***************************************************************************)
(* Text.                                                                   *)
(***************************************************************************)
Digits == <<"0", "1", "2", "3", "4", "5", "6", "7", "8", "9">>
DigitSet == {Digits[k] : k \in 1..10}
Letters == {"a", "b", "c", "d", "e", "f", "g", "h", "i", "j", "k", "l", "m",
            "n", "o", "p", "q", "r", "s", "t", "u", "v", "w", "x", "y", "z"}
\* \w of Python's re: letters, digits and the underscore
WordChars == Letters \cup DigitSet \cup {"_"}
\* \s of Python's re
SpaceChars == {" ", "\t", "\n"}

LowerCase == <<"a", "b", "c", "d", "e", "f", "g", "h", "i", "j", "k", "l", "m",
               "n", "o", "p", "q", "r", "s", "t", "u", "v", "w", "x", "y", "z">>
UpperCase == <<"A", "B", "C", "D", "E", "F", "G", "H", "I", "J", "K", "L", "M",
               "N", "O", "P", "Q", "R", "S", "T", "U", "V", "W", "X", "Y", "Z">>
\* the character that stands for "\0"
NUL == "NUL"

\* The characters of the model in code point order (str comparison in sorted()).
CodeOrder == <<NUL, "\t", "\n", " ", "!", "%", "'", "(", ")", ",", ".",
               "0", "1", "2", "3", "4", "5", "6", "7", "8", "9",
               ":", ";", "=", "?", "@",
               "A", "B", "C", "D", "E", "F", "G", "H", "I", "J", "K", "L", "M",
               "N", "O", "P", "Q", "R", "S", "T", "U", "V", "W", "X", "Y", "Z",
               "_",
               "a", "b", "c", "d", "e", "f", "g", "h", "i", "j", "k", "l", "m",
               "n", "o", "p", "q", "r", "s", "t", "u", "v", "w", "x", "y", "z",
               "{", "|", "}">>
ord(ch) == CHOOSE k \in 1..Len(CodeOrder) : CodeOrder[k] = ch

\* s < t for two str values (lexicographic by code point; a proper prefix is less)
RECURSIVE StrLess(_, _)
StrLess(s, t) ==
    IF t = <<>> THEN FALSE
    ELSE IF s = <<>> THEN TRUE
    ELSE IF Head(s) = Head(t) THEN StrLess(Tail(s), Tail(t))
    ELSE ord(Head(s)) < ord(Head(t))

\* whether text has the characters of w starting at position p (1-based)
HasAt(text, p, w) ==
    /\ p + Len(w) - 1 <= Len(text)
    /\ \A k \in 1..Len(w) : text[p + k - 1] = w[k]

\* the length of the longest run of characters of set cs starting at position p
RECURSIVE RunLen(_, _, _)
RunLen(text, p, cs) ==
    IF p <= Len(text) /\ text[p] \in cs THEN 1 + RunLen(text, p + 1, cs) ELSE 0

\* str(v) for an int v >= 0
RECURSIVE str(_)
str(v) == IF v < 10 THEN <<Digits[v + 1]>> ELSE str(v \div 10) \o <<Digits[(v % 10) + 1]>>

\* int(text) for a text of digits
RECURSIVE int(_)
int(text) ==
    IF text = <<>> THEN 0
    ELSE 10 * int(SubSeq(text, 1, Len(text) - 1)) + (ord(text[Len(text)]) - ord("0"))

\* sep.join(parts)
RECURSIVE join(_, _)
join(sep, parts) ==
    IF parts = <<>> THEN <<>>
    ELSE IF Len(parts) = 1 THEN parts[1]
    ELSE parts[1] \o sep \o join(sep, Tail(parts))

(***************************************************************************)
(* The vocabulary.                                                         *)
(***************************************************************************)
tag_zero == <<"z", "e", "r", "o">>
tag_one == <<"o", "n", "e">>
tag_two == <<"t", "w", "o">>
tag_few == <<"f", "e", "w">>
tag_many == <<"m", "a", "n", "y">>
tag_other == <<"o", "t", "h", "e", "r">>
_plural_tags == {tag_zero, tag_one, tag_two, tag_few, tag_many, tag_other}
_fallback_tag == tag_other
_VARS == {"n", "i", "v", "w", "f", "t", "c", "e"}

kw_and == <<"a", "n", "d">>
kw_or == <<"o", "r">>
kw_is == <<"i", "s">>
kw_in == <<"i", "n">>
kw_within == <<"w", "i", "t", "h", "i", "n">>
kw_not == <<"n", "o", "t">>
kw_mod == <<"m", "o", "d">>

(***************************************************************************)
(* _RULES: the tokenizer's patterns, each as the length of its match at    *)
(* position p of the text (0: no match).                                   *)
(***************************************************************************)
IsWordAt(text, p) == p >= 1 /\ p <= Len(text) /\ text[p] \in WordChars
\* \b between positions p - 1 and p
Boundary(text, p) == IsWordAt(text, p - 1) # IsWordAt(text, p)

\* \s+
MatchSpace(text, p) == RunLen(text, p, SpaceChars)

\* the alternatives of the word pattern, in the order the pattern tries them
WordAlternatives ==
    <<kw_and, kw_or, kw_is, kw_within, kw_in, kw_not, kw_mod,
      <<"n">>, <<"i">>, <<"v">>, <<"w">>, <<"f">>, <<"t">>, <<"c">>, <<"e">>>>

\* whether alternative k of the word pattern matches at p, up to the closing \b
WordFits(text, p, k) ==
    /\ HasAt(text, p, WordAlternatives[k])
    /\ Boundary(text, p + Len(WordAlternatives[k]))

\* \b(and|or|is|(?:with)?in|not|mod|[nivwftce])\b
MatchWord(text, p) ==
    IF Boundary(text, p) /\ \E k \in 1..Len(WordAlternatives) : WordFits(text, p, k)
      THEN Len(WordAlternatives[CHOOSE k \in 1..Len(WordAlternatives) :
                   WordFits(text, p, k) /\ \A j \in 1..(k - 1) : ~WordFits(text, p, j)])
      ELSE 0

\* \d+
MatchValue(text, p) == RunLen(text, p, DigitSet)

\* %|,|!=|=
MatchSymbol(text, p) ==
    IF HasAt(text, p, <<"%">>) THEN 1
    ELSE IF HasAt(text, p, <<",">>) THEN 1
    ELSE IF HasAt(text, p, <<"!", "=">>) THEN 2
    ELSE IF HasAt(text, p, <<"=">>) THEN 1
    ELSE 0

\* \.{2,3}  (the one-character ellipsis glyph is outside the model's alphabet)
MatchEllipsis(text, p) ==
    IF HasAt(text, p, <<".", ".", ".">>) THEN 3
    ELSE IF HasAt(text, p, <<".", ".">>) THEN 2
    ELSE 0

\* _RULES in priority order: the match of pattern k at p, <<token type, length>>
_RULES(k, text, p) ==
    CASE k = 1 -> <<"skip", MatchSpace(text, p)>>
      [] k = 2 -> <<"word", MatchWord(text, p)>>
      [] k = 3 -> <<"value", MatchValue(text, p)>>
      [] k = 4 -> <<"symbol", MatchSymbol(text, p)>>
      [] k = 5 -> <<"ellipsis", MatchEllipsis(text, p)>>
      [] OTHER -> <<"none", 0>>

\* for tok, rule in _RULES: the first pattern from the k-th on that matches at p
RECURSIVE FirstMatch(_, _, _)
FirstMatchWith(k, text, p, m) ==
    IF m[1] = "none" \/ m[2] > 0 THEN m ELSE FirstMatch(k + 1, text, p)

FirstMatch(k, text, p) == FirstMatchWith(k, text, p, _RULES(k, text, p))

(***************************************************************************)
(* tokenize_rule: the tokens of a rule text, in source order, each         *)
(* <<type, text, position>>; or the error at the first position where no   *)
(* pattern matches.                                                        *)
(***************************************************************************)
\* a raised exception: its class, its message and the text the message quotes
Raise(kind, msg, text) == [ok |-> FALSE, kind |-> kind, msg |-> msg, text |-> text]

RECURSIVE TokenizeFrom(_, _, _)
\* a round that passes over a character no pattern matches
TokenizeStepSkipping(text, p, acc, m) ==
    TokenizeFrom(text, p + (IF m[1] = "none" THEN 1 ELSE m[2]),
                 IF m[1] \in {"skip", "none"} THEN acc
                 ELSE Append(acc, <<m[1], SubSeq(text, p, p + m[2] - 1), p - 1>>))

\* one round of the loop at position p, m being the first match there
TokenizeStep(text, p, acc, m) ==
    IF m[1] = "none"
      THEN Raise("TokenizeError", "unexpected character", <<text[p]>>) @@ [pos |-> p - 1]
      ELSE TokenizeFrom(text, p + m[2],
                        IF m[1] = "skip" THEN acc
                        ELSE Append(acc, <<m[1], SubSeq(text, p, p + m[2] - 1), p - 1>>))

TokenizeFrom(text, p, acc) ==
    IF p > Len(text) THEN [ok |-> TRUE, tokens |-> acc]
    ELSE TokenizeStep(text, p, acc, FirstMatch(1, text, p))

tokenize_rule(text) == TokenizeFrom(text, 1, <<>>)

(***************************************************************************)
(* The recursive-descent parser.  Each method takes the tokens not yet     *)
(* consumed (the next token first) and gives [ok, ast, rest], or the       *)
(* RuleError it raises, which carries the text of the offending token      *)
(* (the empty text at the end of the rule).                                *)
(***************************************************************************)
None == <<>>
Parsed(ast, rest) == [ok |-> TRUE, ast |-> ast, rest |-> rest]

\* whether the next token has this type (and, unless any, this text)
NextIs(tokens, type, text) ==
    /\ tokens # <<>>
    /\ tokens[1][1] = type
    /\ (text = None \/ tokens[1][2] = text)

\* the tokens after the next one if that has this type and text, else all of them
SkipIf(tokens, type, text) == IF NextIs(tokens, type, text) THEN Tail(tokens) ELSE tokens

\* the RuleError for an unexpected next token
Unexpected(tokens) ==
    Raise("RuleError", "unexpected token", IF tokens = <<>> THEN <<>> ELSE tokens[1][2])

\* value := digit+
value(tokens) ==
    IF NextIs(tokens, "value", None)
      THEN Parsed(<<"value", int(tokens[1][2])>>, Tail(tokens))
      ELSE Unexpected(tokens)

\* the node op(left, right) once right is parsed
WithRight(op, left, right) ==
    IF right.ok THEN Parsed(<<op, left, right.ast>>, right.rest) ELSE right

\* expr := operand (('mod' | '%') value)?
expr(tokens) ==
    IF ~(NextIs(tokens, "word", None) /\ Len(tokens[1][2]) = 1 /\ tokens[1][2][1] \in _VARS)
      THEN Unexpected(tokens)
    ELSE IF NextIs(Tail(tokens), "word", kw_mod) \/ NextIs(Tail(tokens), "symbol", <<"%">>)
      THEN WithRight("mod", <<tokens[1][2][1]>>, value(Tail(Tail(tokens))))
    ELSE Parsed(<<tokens[1][2][1]>>, Tail(tokens))

\* range | value, with range := value '..' value, once the first value is parsed
RangeAfter(lo) ==
    IF ~lo.ok THEN lo
    ELSE IF NextIs(lo.rest, "ellipsis", None) THEN WithRight("range", lo.ast, value(Tail(lo.rest)))
    ELSE lo

range_or_value(tokens) == RangeAfter(value(tokens))

\* range_list := (range | value) (',' range_list)*
RECURSIVE range_list(_)
ListWithMore(item, more) ==
    IF more.ok THEN Parsed(<<item.ast>> \o more.ast, more.rest) ELSE more

ListAfter(item) ==
    IF ~item.ok THEN item
    ELSE IF NextIs(item.rest, "symbol", <<",">>)
      THEN ListWithMore(item, range_list(Tail(item.rest)))
    ELSE Parsed(<<item.ast>>, item.rest)

range_list(tokens) == ListAfter(range_or_value(tokens))

\* a 'not' negates the one relation it stands in
negate(rel) == <<"not", rel>>

\* in_relation | within_relation once its range list is parsed
RangeRelation(method, left, negated, rl) ==
    IF ~rl.ok THEN rl
    ELSE Parsed(IF negated THEN negate(<<method, left, rl.ast>>) ELSE <<method, left, rl.ast>>,
                rl.rest)

\* is_relation after expr 'is': 'not'? value
IsRelation(left, tokens) ==
    WithRight(IF NextIs(tokens, "word", kw_not) THEN "isnot" ELSE "is", left,
              value(SkipIf(tokens, "word", kw_not)))

\* a RelationOperator that takes '!=' for '='
RelationOperatorNoNegate(tokens, negated) ==
    IF NextIs(tokens, "word", kw_within)
      THEN [ok |-> TRUE, method |-> "within", negated |-> negated, rest |-> Tail(tokens)]
    ELSE IF NextIs(tokens, "word", kw_in)
      THEN [ok |-> TRUE, method |-> "in", negated |-> negated, rest |-> Tail(tokens)]
    ELSE IF ~negated /\ (NextIs(tokens, "symbol", <<"=">>) \/ NextIs(tokens, "symbol", <<"!", "=">>))
      THEN [ok |-> TRUE, method |-> "in", negated |-> FALSE, rest |-> Tail(tokens)]
    ELSE [ok |-> FALSE, rest |-> tokens]

\* the operator of an in_relation or within_relation at the head of tokens:
\* [ok, method, negated, rest], ok being false when no operator is there
RelationOperator(tokens, negated) ==
    IF NextIs(tokens, "word", kw_within)
      THEN [ok |-> TRUE, method |-> "within", negated |-> negated, rest |-> Tail(tokens)]
    ELSE IF NextIs(tokens, "word", kw_in)
      THEN [ok |-> TRUE, method |-> "in", negated |-> negated, rest |-> Tail(tokens)]
    ELSE IF ~negated /\ NextIs(tokens, "symbol", <<"=">>)
      THEN [ok |-> TRUE, method |-> "in", negated |-> FALSE, rest |-> Tail(tokens)]
    ELSE IF ~negated /\ NextIs(tokens, "symbol", <<"!", "=">>)
      THEN [ok |-> TRUE, method |-> "in", negated |-> TRUE, rest |-> Tail(tokens)]
    ELSE [ok |-> FALSE, rest |-> tokens]

\* relation := is_relation | in_relation | within_relation, once expr is parsed
\*   is_relation     := expr 'is' 'not'? value
\*   in_relation     := expr ('not'? 'in' | '=' | '!=') range_list
\*   within_relation := expr 'not'? 'within' range_list
RelationWith(left, o) ==
    IF ~o.ok THEN Unexpected(o.rest)
    ELSE RangeRelation(o.method, left, o.negated, range_list(o.rest))

RelationAfter(left) ==
    IF ~left.ok THEN left
    ELSE IF NextIs(left.rest, "word", kw_is) THEN IsRelation(left.ast, Tail(left.rest))
    ELSE RelationWith(left.ast,
                      RelationOperator(SkipIf(left.rest, "word", kw_not),
                                       NextIs(left.rest, "word", kw_not)))

relation(tokens) == RelationAfter(expr(tokens))

\* and_condition := relation ('and' relation)*
RECURSIVE AndLoop(_, _)
AndLoopWith(op, r) == IF r.ok THEN AndLoop(<<"and", op, r.ast>>, r.rest) ELSE r

AndLoop(op, tokens) ==
    IF NextIs(tokens, "word", kw_and) THEN AndLoopWith(op, relation(Tail(tokens)))
    ELSE Parsed(op, tokens)

AndAfter(r) == IF r.ok THEN AndLoop(r.ast, r.rest) ELSE r

and_condition(tokens) == AndAfter(relation(tokens))

\* condition := and_condition ('or' and_condition)*
RECURSIVE OrLoop(_, _)
OrLoopWith(op, r) == IF r.ok THEN OrLoop(<<"or", op, r.ast>>, r.rest) ELSE r

\* an OrLoop whose right operand is one relation: 'and' would bind no tighter
OrLoopOneRelation(op, tokens) ==
    IF NextIs(tokens, "word", kw_or) THEN OrLoopWith(op, relation(Tail(tokens)))
    ELSE Parsed(op, tokens)

OrLoop(op, tokens) ==
    IF NextIs(tokens, "word", kw_or) THEN OrLoopWith(op, and_condition(Tail(tokens)))
    ELSE Parsed(op, tokens)

OrAfter(r) == IF r.ok THEN OrLoop(r.ast, r.rest) ELSE r

condition(tokens) == OrAfter(and_condition(tokens))

(***************************************************************************)
(* _Parser(string): the parser object after __init__, [ok, ast, tokens],   *)
(* or the exception __init__ raised.                                       *)
(***************************************************************************)
\* the end of __init__, c being what self.condition() gave: tokens left over
\* raise RuleError with the text of self.tokens[-1]
ParserEnd(c) ==
    IF ~c.ok THEN c
    ELSE IF c.rest # <<>>
      THEN Raise("RuleError", "Expected end of rule", c.rest[Len(c.rest)][2])
    ELSE [ok |-> TRUE, ast |-> c.ast, tokens |-> c.rest]

\* __init__ after self.tokens = tokenize_rule(string)
ParserWithTokens(toks) ==
    IF ~toks.ok THEN toks
    ELSE IF toks.tokens = <<>> THEN [ok |-> TRUE, ast |-> None, tokens |-> <<>>]
    ELSE ParserEnd(condition(toks.tokens))

ParserInit(string) == ParserWithTokens(tokenize_rule(string))

(***************************************************************************)
(* The compilers.  A template '...%s...%s...' is the texts before, between *)
(* and after its arguments.                                                *)
(***************************************************************************)
Tmpl(pre, mid, post) == [pre |-> pre, mid |-> mid, post |-> post]

\* _Compiler: compile_and, compile_or, compile_not, compile_mod, compile_is, compile_isnot
_Compiler(op) ==
    CASE op = "and" -> Tmpl(<<"(">>, <<" ", "&", "&", " ">>, <<")">>)
      [] op = "or" -> Tmpl(<<"(">>, <<" ", "|", "|", " ">>, <<")">>)
      [] op = "not" -> Tmpl(<<"(", "!">>, <<>>, <<")">>)
      [] op = "mod" -> Tmpl(<<"(">>, <<" ", "%", " ">>, <<")">>)
      [] op = "is" -> Tmpl(<<"(">>, <<" ", "=", "=", " ">>, <<")">>)
      [] op = "isnot" -> Tmpl(<<"(">>, <<" ", "!", "=", " ">>, <<")">>)

\* a _UnicodeCompiler that overrides nothing of _Compiler
_UnicodeCompilerInherited(op) == _Compiler(op)

\* _UnicodeCompiler: compile_is, compile_isnot, compile_and, compile_or, compile_mod
_UnicodeCompiler(op) ==
    CASE op = "is" -> Tmpl(<<>>, <<" ">> \o kw_is \o <<" ">>, <<>>)
      [] op = "isnot" -> Tmpl(<<>>, <<" ">> \o kw_is \o <<" ">> \o kw_not \o <<" ">>, <<>>)
      [] op = "and" -> Tmpl(<<>>, <<" ">> \o kw_and \o <<" ">>, <<>>)
      [] op = "or" -> Tmpl(<<>>, <<" ">> \o kw_or \o <<" ">>, <<>>)
      [] op = "mod" -> Tmpl(<<>>, <<" ">> \o kw_mod \o <<" ">>, <<>>)
      [] OTHER -> _Compiler(op)

\* compile_value: str(v)
compile_value(v) == str(v)

\* _binary_compiler(tmpl): tmpl % (compile(left), compile(right))
_binary_compiler(tmpl, left, right) == tmpl.pre \o left \o tmpl.mid \o right \o tmpl.post

\* _unary_compiler(tmpl): tmpl % compile(x)
_unary_compiler(tmpl, x) == tmpl.pre \o x \o tmpl.post

\* one item of a range list in rule syntax: 'value' or 'low..high'
UnicodeRangeItem(item) ==
    IF item[1] = "range"
      THEN compile_value(item[2][2]) \o <<".", ".">> \o compile_value(item[3][2])
      ELSE compile_value(item[2])

\* _UnicodeCompiler.compile(ast): the rule text of an AST
RECURSIVE UnicodeCompile(_)
\* 'expr [not] in|within range_list'
UnicodeRelation(rel, negated) ==
    UnicodeCompile(rel[2])
        \o (IF negated THEN <<" ">> \o kw_not ELSE <<>>)
        \o <<" ">> \o (IF rel[1] = "in" THEN kw_in ELSE kw_within) \o <<" ">>
        \o join(<<",">>, [k \in 1..Len(rel[3]) |-> UnicodeRangeItem(rel[3][k])])

UnicodeCompile(ast) ==
    LET op == ast[1]
    IN  IF op \in _VARS THEN <<op>>
        ELSE IF op = "value" THEN compile_value(ast[2])
        ELSE IF op \in {"in", "within"} THEN UnicodeRelation(ast, FALSE)
        ELSE IF op = "not" THEN UnicodeRelation(ast[2], TRUE)
        ELSE _binary_compiler(_UnicodeCompiler(op), UnicodeCompile(ast[2]), UnicodeCompile(ast[3]))

(***************************************************************************)
(* Numbers as Python holds them: an int, a float or a decimal.Decimal,     *)
(* [kind, neg, int, frac], frac being the fraction digits of its decimal   *)
(* text (of repr for a float), most significant first.                     *)
(***************************************************************************)
Number(kind, neg, ip, frac) == [kind |-> kind, neg |-> neg, int |-> ip, frac |-> frac]

abs(x) == IF x < 0 THEN -x ELSE x

\* the int k as a number
IntNumber(k) == Number("int", k < 0, abs(k), <<>>)

RECURSIVE Pow10(_)
Pow10(k) == IF k = 0 THEN 1 ELSE 10 * Pow10(k - 1)

\* the digits of a fraction read as an integer
RECURSIVE FracValue(_)
FracValue(frac) ==
    IF frac = <<>> THEN 0
    ELSE 10 * FracValue(SubSeq(frac, 1, Len(frac) - 1)) + frac[Len(frac)]

\* the value of a number in units of 10^-MaxFraction
Magnitude(num) ==
    num.int * Pow10(MaxFraction) + FracValue(num.frac) * Pow10(MaxFraction - Len(num.frac))

Value(num) == IF num.neg THEN -Magnitude(num) ELSE Magnitude(num)

\* the value of the int k in the same units
IntValue(k) == k * Pow10(MaxFraction)

\* decimal.Decimal(str(num)) of a float: the digits of its repr
DecimalOfStr(num) == [num EXCEPT !.kind = "Decimal"]

\* Decimal.to_integral_value() under the default context (ROUND_HALF_EVEN),
\* as a value in units of 10^-MaxFraction
RoundHalfEven(m) ==
    LET q == m \div Pow10(MaxFraction)
        r == m % Pow10(MaxFraction)
    IN  IF 2 * r < Pow10(MaxFraction) THEN q
        ELSE IF 2 * r > Pow10(MaxFraction) THEN q + 1
        ELSE IF q % 2 = 0 THEN q ELSE q + 1

to_integral_value(num) ==
    IF num.kind = "Decimal"
      THEN [ok |-> TRUE,
            val |-> IntValue(IF num.neg THEN -RoundHalfEven(Magnitude(num))
                             ELSE RoundHalfEven(Magnitude(num)))]
      ELSE Raise("AttributeError", "object has no attribute", <<>>)

(***************************************************************************)
(* Numbers and the primitives of the generated evaluator.                  *)
(***************************************************************************)
\* Python's a % b on ints, b # 0: the result is zero or has the sign of b
PyMod(a, b) == IF b > 0 THEN a % b ELSE -((-a) % (-b))

\* cldr_modulo(a, b)
cldr_modulo(a, b) == IF a < 0 THEN PyMod(PyMod(a, b) + b, b) ELSE PyMod(a, b)

\* the fraction digits without their trailing zeros
RECURSIVE StripZeros(_)
StripZeros(frac) ==
    IF frac # <<>> /\ frac[Len(frac)] = 0 THEN StripZeros(SubSeq(frac, 1, Len(frac) - 1))
    ELSE frac

\* an OperandsOf that takes t from the digits with their trailing zeros
OperandsOfUnstripped(dec) ==
    [n |-> [dec EXCEPT !.neg = FALSE], i |-> dec.int,
     v |-> Len(dec.frac), w |-> Len(StripZeros(dec.frac)),
     f |-> FracValue(dec.frac), t |-> FracValue(dec.frac), c |-> 0, e |-> 0]

\* the operands of a number in its exact decimal text
OperandsOf(dec) ==
    [n |-> [dec EXCEPT !.neg = FALSE], i |-> dec.int,
     v |-> Len(dec.frac), w |-> Len(StripZeros(dec.frac)),
     f |-> FracValue(dec.frac), t |-> FracValue(StripZeros(dec.frac)), c |-> 0, e |-> 0]

\* extract_operands(source): (n, i, v, w, f, t, c, e); a float is first
\* converted through its decimal string
extract_operands(source) ==
    OperandsOf(IF source.kind = "float" THEN DecimalOfStr(source) ELSE source)

\* whether the integer num is in the range list of an 'in' or 'within' node:
\* it equals a single value or lies in a low..high range, bounds included
\* (an integer has no fraction digits, so the two relations agree on it)
InRangeList(num, ranges) ==
    \E k \in 1..Len(ranges) :
        IF ranges[k][1] = "range"
          THEN ranges[k][2][2] <= num /\ num <= ranges[k][3][2]
          ELSE num = ranges[k][2]

\* the operand of this name; the numbers classified are ints, whose n is an int
Operand(ops, name) == IF name = "n" THEN ops.n.int ELSE ops[name]

\* the value of an expr or value node for the operands ops
ExprValue(ast, ops) ==
    IF ast[1] = "value" THEN ast[2]
    ELSE IF ast[1] = "mod" THEN cldr_modulo(Operand(ops, ast[2][1]), ast[3][2])
    ELSE Operand(ops, ast[1])

\* whether a condition is true for the operands ops
RECURSIVE Holds(_, _)
Holds(ast, ops) ==
    LET op == ast[1]
    IN  CASE op = "or" -> Holds(ast[2], ops) \/ Holds(ast[3], ops)
          [] op = "and" -> Holds(ast[2], ops) /\ Holds(ast[3], ops)
          [] op = "not" -> ~Holds(ast[2], ops)
          [] op = "is" -> ExprValue(ast[2], ops) = ExprValue(ast[3], ops)
          [] op = "isnot" -> ExprValue(ast[2], ops) # ExprValue(ast[3], ops)
          [] op \in {"in", "within"} -> InRangeList(ExprValue(ast[2], ops), ast[3])

(***************************************************************************)
(* PluralRule.                                                             *)
(***************************************************************************)
\* (tag, expr) < (tag', expr'): the order sorted() puts the pairs in
PairLess(a, b) == StrLess(a[1], b[1]) \/ (a[1] = b[1] /\ StrLess(a[2], b[2]))

\* x put into the sorted sequence seq, after the pairs that are not greater
Insert(x, seq) ==
    SelectSeq(seq, LAMBDA y : ~PairLess(x, y)) \o <<x>> \o SelectSeq(seq, LAMBDA y : PairLess(x, y))

\* sorted(rules)
RECURSIVE sorted(_)
sorted(seq) ==
    IF seq = <<>> THEN <<>>
    ELSE Insert(seq[Len(seq)], sorted(SubSeq(seq, 1, Len(seq) - 1)))

\* an InitAppend that stores the entry whatever the ast
InitAppendAlways(key, found, abs_, p) ==
    IF ~p.ok THEN p
    ELSE [ok |-> TRUE, found |-> found \cup {key}, abstract |-> Append(abs_, <<key, p.ast>>)]

\* the end of one round of PluralRule.__init__'s loop, p being _Parser(expr):
\* an entry is appended when the ast is not None
InitAppend(key, found, abs_, p) ==
    IF ~p.ok THEN p
    ELSE [ok |-> TRUE, found |-> found \cup {key},
          abstract |-> IF p.ast # None THEN Append(abs_, <<key, p.ast>>) ELSE abs_]

\* an InitStep without the test for a tag defined twice
InitStepNoDuplicateTest(key, expression, found, abs_) ==
    IF key \notin _plural_tags THEN Raise("ValueError", "unknown tag", key)
    ELSE InitAppend(key, found, abs_, ParserInit(expression))

\* an InitStep without the test for an unknown tag
InitStepNoTagTest(key, expression, found, abs_) ==
    IF key \in found THEN Raise("ValueError", "defined twice", key)
    ELSE InitAppend(key, found, abs_, ParserInit(expression))

\* one round of PluralRule.__init__'s loop for (key, expr), given the tags found
\* and the abstract built so far: the new [found, abstract], or the exception
InitStep(key, expression, found, abs_) ==
    IF key \notin _plural_tags THEN Raise("ValueError", "unknown tag", key)
    ELSE IF key \in found THEN Raise("ValueError", "defined twice", key)
    ELSE InitAppend(key, found, abs_, ParserInit(expression))

RECURSIVE InitLoop(_, _, _)
InitLoopWith(todo, step) ==
    IF ~step.ok THEN step ELSE InitLoop(Tail(todo), step.found, step.abstract)

InitLoop(todo, found, abs_) ==
    IF todo = <<>> THEN [ok |-> TRUE, found |-> found, abstract |-> abs_]
    ELSE InitLoopWith(todo, InitStep(todo[1][1], todo[1][2], found, abs_))

\* PluralRule(rules): [ok, abstract] or the exception raised
PluralRuleInit(rs) == InitLoop(sorted(rs), {}, <<>>)

\* PluralRule.rules: {tag: text} in the order of abstract
PluralRuleRules(abs_) == [k \in 1..Len(abs_) |-> <<abs_[k][1], UnicodeCompile(abs_[k][2])>>]

\* a tags property that leaves the fallback tag out
PluralRuleTagsImplicitOther(abs_) == {abs_[k][1] : k \in 1..Len(abs_)} \ {_fallback_tag}

\* PluralRule.tags
PluralRuleTags(abs_) == {abs_[k][1] : k \in 1..Len(abs_)}

(***************************************************************************)
(* to_python: the source text it builds, line by line (each line with its  *)
(* indentation), and what exec makes of it.                                *)
(***************************************************************************)
\* parts: "if <expr>: return '<tag>'" per entry, then "return 'other'"
PythonParts(abs_) ==
    [k \in 1..Len(abs_) |-> [stmt |-> "if", cond |-> abs_[k][2], tag |-> abs_[k][1]]]
        \o <<[stmt |-> "return", cond |-> None, tag |-> _fallback_tag]>>

\* the lines of the function body after the operand extraction: '\n'.join(parts)
\* is put after four spaces, which indent its first line only
PythonBody(parts) ==
    [k \in 1..Len(parts) |-> [indent |-> IF k = 1 THEN 4 ELSE 0, part |-> parts[k]]]

\* exec of the source: a line at indentation 0 ends the def, and its return
\* statement is a syntax error; otherwise the function plural is defined
exec(body) ==
    IF \E k \in 1..Len(body) : body[k].indent = 0
      THEN Raise("SyntaxError", "'return' outside function", <<>>)
      ELSE [ok |-> TRUE, set |-> TRUE, body |-> body]

to_python(abs_) == exec(PythonBody(PythonParts(abs_)))

\* plural(n): the first part whose condition holds returns its tag
RECURSIVE RunBody(_, _)
RunBody(body, ops) ==
    LET part == body[1].part
    IN  IF part.stmt = "return" \/ Holds(part.cond, ops) THEN part.tag
        ELSE RunBody(Tail(body), ops)

plural(f, n) == RunBody(f.body, extract_operands(IntNumber(n)))

(***************************************************************************)
(* The inputs.                                                             *)
(***************************************************************************)
sp == <<" ">>
one == <<"1">>
two == <<"2">>

tag_unknown == <<"z", "z", "z">>
TagInputs == {tag_few, tag_one, tag_other, tag_unknown}

e_empty == <<>>
e_blank == sp
\* 'n is 2'
e_is2 == <<"n">> \o sp \o kw_is \o sp \o two
\* 'i is 1 2': a complete condition and one more token
e_trail == <<"i">> \o sp \o kw_is \o sp \o one \o sp \o two
\* 'i != 01 and n % 2 is not 1 or v not within 0...1': true of 0 and of 2
e_rich == <<"i">> \o sp \o <<"!", "=">> \o sp \o <<"0", "1">> \o sp \o kw_and \o sp
          \o <<"n">> \o sp \o <<"%">> \o sp \o two \o sp \o kw_is \o sp \o kw_not \o sp \o one
          \o sp \o kw_or \o sp
          \o <<"v">> \o sp \o kw_not \o sp \o kw_within \o sp \o <<"0", ".", ".", ".", "1">>
ExprInputs == {e_empty, e_blank, e_is2, e_trail, e_rich}

\* the constructor arguments: every sequence of at most MaxRules (tag, expr) pairs
RuleInputs == UNION {[1..k -> TagInputs \X ExprInputs] : k \in 0..MaxRules}

Numbers == (-MaxNumber)..MaxNumber

(***************************************************************************)
(* Messages and catalogs (babel/messages/catalog.py).                      *)
(* A Python value that is None, a str or a tuple of str is a record; an    *)
(* OrderedDict is the sequence of its [key, val] items in insertion order. *)
(* Of a Message the model keeps id, string, locations, flags and context;  *)
(* of a Catalog, _messages, obsolete, the header string and fuzzy.         *)
(***************************************************************************)
PyNone == [type |-> "None"]
PyStr(text) == [type |-> "str", s |-> text]
PyTuple(items) == [type |-> "tuple", items |-> items]

\* bool(v) of None, a str or a tuple
Truthy(v) ==
    CASE v.type = "None" -> FALSE
      [] v.type = "str" -> v.s # <<>>
      [] v.type = "tuple" -> v.items # <<>>

\* ch.lower() of one character
lower_char(ch) ==
    IF \E k \in 1..Len(UpperCase) : UpperCase[k] = ch
    THEN LowerCase[CHOOSE k \in 1..Len(UpperCase) : UpperCase[k] = ch]
    ELSE ch

\* text.lower()
lower(text) == [k \in 1..Len(text) |-> lower_char(text[k])]

\* babel.util.distinct: the items of seq in order, each one once
RECURSIVE distinct(_)
distinct(seq) ==
    IF seq = <<>> THEN <<>>
    ELSE LET init == distinct(SubSeq(seq, 1, Len(seq) - 1))
             last == seq[Len(seq)]
         IN IF \E k \in 1..Len(init) : init[k] = last THEN init ELSE Append(init, last)

\* ---- PYTHON_FORMAT ----
ConversionChars ==
    {"d", "i", "o", "u", "x", "X", "e", "E", "f", "F", "g", "G", "c", "r", "s", "%"}
NameChars == WordChars \cup {UpperCase[k] : k \in 1..Len(UpperCase)}

\* the positions after an optional part of the pattern that starts at one of ps
AfterName(text, ps) ==
    ps \cup {e \in 1..(Len(text) + 1) :
                \E q \in ps : /\ HasAt(text, q, <<"(">>)
                              /\ e - q - 2 \in 0..RunLen(text, q + 1, NameChars)
                              /\ HasAt(text, e - 1, <<")">>)}
AfterOneOf(text, ps, cs) ==
    ps \cup {q + 1 : q \in {p \in ps : p <= Len(text) /\ text[p] \in cs}}
AfterCount(text, ps) ==
    ps \cup {e \in 1..(Len(text) + 1) :
                \E q \in ps : \/ HasAt(text, q, <<"*">>) /\ e = q + 1
                              \/ e - q \in 1..RunLen(text, q, DigitSet)}
AfterPrecision(text, ps) ==
    ps \cup {e \in 1..(Len(text) + 1) :
                \E q \in ps : /\ HasAt(text, q, <<".">>)
                              /\ \/ HasAt(text, q + 1, <<"*">>) /\ e = q + 2
                                 \/ e - q - 1 \in 1..RunLen(text, q + 1, DigitSet)}

\* PYTHON_FORMAT matches text at position p:
\* % (name)? [-#0 +]? (*|digits)? (.(*|digits))? [hlL]? conversion
PythonFormatAt(text, p) ==
    /\ HasAt(text, p, <<"%">>)
    /\ \E q \in AfterOneOf(text,
                  AfterPrecision(text,
                    AfterCount(text,
                      AfterOneOf(text, AfterName(text, {p + 1}),
                                 {"-", "#", "0", " ", "+"}))),
                  {"h", "l", "L"}) :
          q <= Len(text) /\ text[q] \in ConversionChars

\* bool(PYTHON_FORMAT.search(text))
PythonFormatSearch(text) == \E p \in 1..Len(text) : PythonFormatAt(text, p)

\* ---- class Message ----
pluralizable(id) == id.type = "tuple"

python_format(id) ==
    IF id.type = "tuple"
    THEN \E k \in 1..Len(id.items) : PythonFormatSearch(id.items[k])
    ELSE PythonFormatSearch(id.s)

\* Message(id, string, locations, flags, context=context)
Message(id, string, locations, flags, context) ==
    [id |-> id,
     string |-> IF ~Truthy(string) /\ pluralizable(id) THEN PyTuple(<<<<>>, <<>>>>)
                ELSE string,
     locations |-> distinct(locations),
     flags |-> IF Truthy(id) /\ python_format(id) THEN flags \cup {"python-format"}
               ELSE flags \ {"python-format"},
     context |-> context]

\* message.fuzzy
fuzzy(message) == "fuzzy" \in message.flags

\* ---- OrderedDict ----
DictHas(d, key) == \E k \in 1..Len(d) : d[k].key = key
DictIndex(d, key) == CHOOSE k \in 1..Len(d) : d[k].key = key
\* d[key]
DictGet(d, key) == d[DictIndex(d, key)].val
\* d[key] = val: a key already there keeps its place
DictSet(d, key, val) ==
    IF DictHas(d, key)
    THEN [d EXCEPT ![DictIndex(d, key)] = [key |-> key, val |-> val]]
    ELSE Append(d, [key |-> key, val |-> val])
\* del d[key]
DictDel(d, key) ==
    LET at == DictIndex(d, key) IN SubSeq(d, 1, at - 1) \o SubSeq(d, at + 1, Len(d))
\* list(d.keys())
DictKeys(d) == [k \in 1..Len(d) |-> d[k].key]
\* d1 with the items of d2 assigned one after the other
RECURSIVE DictUpdate(_, _)
DictUpdate(d1, d2) ==
    IF d2 = <<>> THEN d1
    ELSE DictUpdate(DictSet(d1, d2[1].key, d2[1].val), Tail(d2))

\* ---- class Catalog ----
\* the header string of a catalog that was given none
DefaultHeaders == PyStr(<<"H">>)

\* Catalog()
EmptyCatalog ==
    [messages |-> <<>>, obsolete |-> <<>>, mime_headers |-> DefaultHeaders, fuzzy |-> TRUE]

\* Catalog._key_for(id, context)
_key_for(id, context) ==
    LET singular == IF id.type = "tuple" THEN id.items[1] ELSE id.s
    IN IF context # PyNone THEN PyTuple(<<singular, context.s>>) ELSE PyStr(singular)

\* id in catalog
contains(cat, id) == DictHas(cat.messages, _key_for(id, PyNone))

\* len(catalog)
len(cat) == Len(cat.messages)

\* an iteration that yields the stored messages only
IterStored(cat) == [k \in 1..Len(cat.messages) |-> cat.messages[k].val]

\* list(catalog): the header message, then the stored messages
iter(cat) ==
    <<Message(PyStr(<<>>), cat.mime_headers, <<>>,
              IF cat.fuzzy THEN {"fuzzy"} ELSE {}, PyNone)>>
    \o [k \in 1..Len(cat.messages) |-> cat.messages[k].val]

\* a Catalog just made, no operation on it yet
CatalogIdle ==
    catalog = EmptyCatalog /\ cret = [op |-> "none"] /\ added = <<>> /\ cops = 0

(***************************************************************************)
(* The PluralRule instance: construction, calls and properties.            *)
(***************************************************************************)
NoFunc == [ok |-> TRUE, set |-> FALSE]
NoParser == [state |-> "none"]
NoModulo == [done |-> FALSE, val |-> 0]

ParserIdle == ptext = <<>> /\ parser = NoParser
ModuloIdle == ma = 0 /\ mb = 1 /\ mr = NoModulo
RuleIdle == /\ rules = <<>> /\ pc = "new" /\ abstract = <<>> /\ func = NoFunc
            /\ ret = [op |-> "none"]

NoCall == [fn |-> "none"]
\* no thread calls the instance
ThreadsIdle == threads = <<>>
NoTwin == [pc |-> "new", rules |-> <<>>, abstract |-> <<>>, func |-> NoFunc]
FunctionIdle == fin = NoCall /\ fout = NoCall /\ twin = NoTwin /\ CatalogIdle /\ ThreadsIdle

Init == RuleIdle /\ ParserIdle /\ ModuloIdle /\ FunctionIdle

\* the outcome of an operation that gave res
Outcome(op, res, val) ==
    IF res.ok THEN [op |-> op, ok |-> TRUE, val |-> val]
    ELSE [op |-> op, ok |-> FALSE, kind |-> res.kind, msg |-> res.msg, text |-> res.text]

\* PluralRule(rs), res being what __init__ gave
ConstructWith(rs, res) ==
    /\ rules' = rs
    /\ pc' = IF res.ok THEN "built" ELSE "failed"
    /\ abstract' = IF res.ok THEN res.abstract ELSE <<>>
    /\ ret' = Outcome("init", res, <<>>)

Construct(rs) ==
    /\ pc = "new"
    /\ ConstructWith(rs, PluralRuleInit(rs))
    /\ UNCHANGED <<func, ptext, parser, ma, mb, mr>>
    /\ UNCHANGED rest_vars

\* PluralRule.__call__(n), f being self._func or, when that is not set, what
\* to_python(self) gave
CallWith(n, f) ==
    /\ func' = IF f.ok THEN f ELSE func
    /\ ret' = Outcome("call", f, IF f.ok THEN plural(f, n) ELSE <<>>) @@ [n |-> n]

Call(n) ==
    /\ pc = "built"
    /\ CallWith(n, IF func.set THEN func ELSE to_python(abstract))
    /\ UNCHANGED <<rules, pc, abstract, ptext, parser, ma, mb, mr>>
    /\ UNCHANGED rest_vars

\* PluralRule.tags
Tags ==
    /\ pc = "built"
    /\ ret' = [op |-> "tags", ok |-> TRUE, val |-> PluralRuleTags(abstract)]
    /\ UNCHANGED <<rules, pc, abstract, func, ptext, parser, ma, mb, mr>>
    /\ UNCHANGED rest_vars

\* PluralRule.rules
Rules ==
    /\ pc = "built"
    /\ ret' = [op |-> "rules", ok |-> TRUE, val |-> PluralRuleRules(abstract)]
    /\ UNCHANGED <<rules, pc, abstract, func, ptext, parser, ma, mb, mr>>
    /\ UNCHANGED rest_vars

\* PluralRule.parse(self.rules): a second instance built from the rendered rules
ReparseWith(res) == ret' = Outcome("reparse", res, IF res.ok THEN res.abstract ELSE <<>>)

Reparse ==
    /\ pc = "built"
    /\ ReparseWith(PluralRuleInit(PluralRuleRules(abstract)))
    /\ UNCHANGED <<rules, pc, abstract, func, ptext, parser, ma, mb, mr>>
    /\ UNCHANGED rest_vars

Next ==
    \/ \E rs \in RuleInputs : Construct(rs)
    \/ \E n \in Numbers : Call(n)
    \/ Tags
    \/ Rules
    \/ Reparse

Spec == Init /\ [][Next]_vars

(***************************************************************************)
(* _Parser(string) on its own.                                             *)
(***************************************************************************)
\* a op b, with one space on each side of op
Spaced(a, op, b) == a \o sp \o op \o sp \o b

\* relations: 'n is 1', 'i not in 2', 'v within 0..1'
RelationTexts ==
    {Spaced(<<"n">>, kw_is, one),
     Spaced(<<"i">>, kw_not \o sp \o kw_in, two),
     Spaced(<<"v">>, kw_within, <<"0", ".", ".", "1">>)}
\* exprs: 'n', 'i % 2', 'v mod 3'
ExprTexts == {<<"n">>, Spaced(<<"i">>, <<"%">>, two), Spaced(<<"v">>, kw_mod, <<"3">>)}
\* range lists: '1', '1..2', '0,3...4'
RangeListTexts == {one, <<"1", ".", ".", "2">>, <<"0", ",", "3", ".", ".", ".", "4">>}
\* the operators of an in_relation
InOperators == {<<"=">>, kw_in, <<"!", "=">>, kw_not \o sp \o kw_in}

\* 'A or B and C' and 'A and B or C'
OrAnd(a, b, c) == Spaced(a, kw_or, Spaced(b, kw_and, c))
AndOr(a, b, c) == Spaced(Spaced(a, kw_and, b), kw_or, c)

\* texts of 1..MaxTrailing tokens that cannot continue a condition
TrailingTokens == {two, <<"n">>, <<"=">>}
TrailingTexts ==
    {join(sp, ts) : ts \in UNION {[1..k -> TrailingTokens] : k \in 1..MaxTrailing}}

\* texts that are no condition: 'is 1', 'n is is', 'n 1', 'n not = 1', 'n is', 'n @ 1'
MalformedTexts ==
    {kw_is \o sp \o one,
     Spaced(<<"n">>, kw_is, kw_is),
     <<"n">> \o sp \o one,
     Spaced(<<"n">>, kw_not \o sp \o <<"=">>, one),
     <<"n">> \o sp \o kw_is,
     Spaced(<<"n">>, <<"@">>, one)}

ParseInputs ==
    {e_empty, e_blank} \cup RelationTexts \cup MalformedTexts
    \cup {OrAnd(a, b, c) : a \in RelationTexts, b \in RelationTexts, c \in RelationTexts}
    \cup {AndOr(a, b, c) : a \in RelationTexts, b \in RelationTexts, c \in RelationTexts}
    \cup {Spaced(e, o, rl) : e \in ExprTexts, o \in InOperators, rl \in RangeListTexts}
    \cup {r \o sp \o t : r \in RelationTexts, t \in TrailingTexts}

InitParser ==
    /\ RuleIdle /\ ModuloIdle /\ FunctionIdle
    /\ ptext \in ParseInputs /\ parser = NoParser

\* _Parser(ptext)
Parse ==
    /\ parser.state = "none"
    /\ parser' = ParserInit(ptext) @@ [state |-> "done"]
    /\ UNCHANGED <<rules, pc, abstract, func, ret, ptext, ma, mb, mr>>
    /\ UNCHANGED rest_vars

SpecParser == InitParser /\ [][Parse]_vars

(***************************************************************************)
(* cldr_modulo on its own.                                                 *)
(***************************************************************************)
ModArgs == (-MaxModArg)..MaxModArg

InitModulo ==
    /\ RuleIdle /\ ParserIdle /\ FunctionIdle
    /\ ma \in ModArgs /\ mb \in ModArgs \ {0} /\ mr = NoModulo

\* cldr_modulo(ma, mb)
Modulo ==
    /\ ~mr.done
    /\ mr' = [done |-> TRUE, val |-> cldr_modulo(ma, mb)]
    /\ UNCHANGED <<rules, pc, abstract, func, ret, ptext, parser, ma, mb>>
    /\ UNCHANGED rest_vars

SpecModulo == InitModulo /\ [][Modulo]_vars

(***************************************************************************)
(* in_range_list and within_range_list.  A range list is a sequence of     *)
(* items, each a bare int [bare |-> TRUE, val] or a pair                   *)
(* [bare |-> FALSE, start, end].                                           *)
(***************************************************************************)
Returned(v) == [ok |-> TRUE, val |-> v]

\* start <= num <= end and num.to_integral_value() == num, t being what
\* num.to_integral_value() gave where the 'and' reaches it
InPairWith(num, item, t) ==
    IF ~(IntValue(item.start) <= Value(num) /\ Value(num) <= IntValue(item.end))
      THEN Returned(FALSE)
    ELSE IF ~t.ok THEN t
    ELSE Returned(t.val = Value(num))

\* the test in_range_list makes of one item: [ok, val] or the exception raised
InItem(num, item) ==
    IF item.bare THEN Returned(Value(num) = IntValue(item.val))
    ELSE InPairWith(num, item, to_integral_value(num))

\* the loop of in_range_list from item k on
RECURSIVE InRangeLoop(_, _, _)
InRangeLoopWith(num, ranges, k, t) ==
    IF ~t.ok THEN t
    ELSE IF t.val THEN Returned(TRUE)
    ELSE InRangeLoop(num, ranges, k + 1)

InRangeLoop(num, ranges, k) ==
    IF k > Len(ranges) THEN Returned(FALSE)
    ELSE InRangeLoopWith(num, ranges, k, InItem(num, ranges[k]))

in_range_list(num, ranges) ==
    InRangeLoop(IF num.kind = "float" THEN DecimalOfStr(num) ELSE num, ranges, 1)

\* a within test that asks for an integral number in a pair, as 'in' does
WithinItemIntegral(num, item) ==
    IF item.bare THEN Value(num) = IntValue(item.val)
    ELSE /\ IntValue(item.start) <= Value(num) /\ Value(num) <= IntValue(item.end)
         /\ num.frac = <<>>

\* the test within_range_list makes of one item
WithinItem(num, item) ==
    IF item.bare THEN Value(num) = IntValue(item.val)
    ELSE IntValue(item.start) <= Value(num) /\ Value(num) <= IntValue(item.end)

\* the loop of within_range_list from item k on
RECURSIVE WithinRangeLoop(_, _, _)
WithinRangeLoop(num, ranges, k) ==
    IF k > Len(ranges) THEN Returned(FALSE)
    ELSE IF WithinItem(num, ranges[k]) THEN Returned(TRUE)
    ELSE WithinRangeLoop(num, ranges, k + 1)

within_range_list(num, ranges) ==
    WithinRangeLoop(IF num.kind = "float" THEN DecimalOfStr(num) ELSE num, ranges, 1)

(***************************************************************************)
(* in_range_list and within_range_list on their own.                       *)
(***************************************************************************)
\* the fraction digits the inputs are made of
FractionDigits == {0, 2, 5}

\* the fractions of the numbers given to the range functions: none, .0, .2, .5
RangeFractions == {<<>>} \cup {<<d>> : d \in FractionDigits}

\* ints, floats (repr has one fraction digit at least) and Decimals, of
\* either sign (no negative zero)
RangeNumbers ==
    {Number("int", ng, ip, <<>>) : ng \in BOOLEAN, ip \in 0..(MaxRangeValue + 1)}
    \cup {Number("float", ng, ip, fr) :
              ng \in BOOLEAN, ip \in 0..(MaxRangeValue + 1), fr \in RangeFractions \ {<<>>}}
    \cup {Number("Decimal", ng, ip, fr) :
              ng \in BOOLEAN, ip \in 0..(MaxRangeValue + 1), fr \in RangeFractions}

RangeItems ==
    {[bare |-> TRUE, val |-> k] : k \in 1..MaxRangeValue}
    \cup {[bare |-> FALSE, start |-> lo, end |-> hi] :
              lo \in 1..MaxRangeValue, hi \in 1..MaxRangeValue}

RangeLists == UNION {[1..k -> RangeItems] : k \in 0..MaxRangeItems}

NotCalled == [called |-> FALSE]

InitRange ==
    /\ RuleIdle /\ ParserIdle /\ ModuloIdle /\ twin = NoTwin /\ CatalogIdle /\ ThreadsIdle
    /\ fin \in {[fn |-> "range", num |-> n, ranges |-> rl] :
                    n \in {x \in RangeNumbers : x.neg => Magnitude(x) # 0}, rl \in RangeLists}
    /\ fout = [in |-> NotCalled, within |-> NotCalled]

\* in_range_list(fin.num, fin.ranges)
InRangeListCall ==
    /\ ~fout.in.called
    /\ fout' = [fout EXCEPT !.in = in_range_list(fin.num, fin.ranges) @@ [called |-> TRUE]]
    /\ UNCHANGED <<fin, twin>>
    /\ UNCHANGED <<catalog_vars, threads>>
    /\ UNCHANGED plural_vars

\* within_range_list(fin.num, fin.ranges)
WithinRangeListCall ==
    /\ ~fout.within.called
    /\ fout' = [fout EXCEPT !.within = within_range_list(fin.num, fin.ranges) @@ [called |-> TRUE]]
    /\ UNCHANGED <<fin, twin>>
    /\ UNCHANGED <<catalog_vars, threads>>
    /\ UNCHANGED plural_vars

NextRange == InRangeListCall \/ WithinRangeListCall

SpecRange == InitRange /\ [][NextRange]_vars

(***************************************************************************)
(* extract_operands on its own.                                            *)
(***************************************************************************)
\* the fractions of at most MaxFraction digits
Fractions == UNION {[1..k -> FractionDigits] : k \in 0..MaxFraction}

\* the fractions repr gives a float: one digit at least, no trailing zero but in '.0'
FloatFractions == {fr \in Fractions : fr = <<0>> \/ (fr # <<>> /\ fr[Len(fr)] # 0)}

OperandNumbers ==
    {Number("int", ng, ip, <<>>) : ng \in BOOLEAN, ip \in 0..MaxNumber}
    \cup {Number("float", ng, ip, fr) : ng \in BOOLEAN, ip \in 0..MaxNumber, fr \in FloatFractions}
    \cup {Number("Decimal", ng, ip, fr) : ng \in BOOLEAN, ip \in 0..MaxNumber, fr \in Fractions}

InitOperands ==
    /\ RuleIdle /\ ParserIdle /\ ModuloIdle /\ twin = NoTwin /\ CatalogIdle /\ ThreadsIdle
    /\ fin \in {[fn |-> "operands", num |-> n] :
                    n \in {x \in OperandNumbers : x.neg => Magnitude(x) # 0}}
    /\ fout = NotCalled

\* extract_operands(fin.num)
ExtractOperandsCall ==
    /\ ~fout.called
    /\ fout' = [called |-> TRUE, val |-> extract_operands(fin.num)]
    /\ UNCHANGED <<fin, twin>>
    /\ UNCHANGED <<catalog_vars, threads>>
    /\ UNCHANGED plural_vars

SpecOperands == InitOperands /\ [][ExtractOperandsCall]_vars

(***************************************************************************)
(* to_gettext and to_javascript.  The conditions rendered in the model are *)
(* made of the nodes whose templates _Compiler holds: operands, values,    *)
(* mod, is, isnot, and, or.                                                *)
(***************************************************************************)
compile_zero == <<"0">>

\* _GettextCompiler: compile_i is compile_n; compile_v, w, f, t are compile_zero
_GettextCompiler(name) ==
    IF name = "i" THEN <<"n">>
    ELSE IF name \in {"v", "w", "f", "t"} THEN compile_zero
    ELSE <<name>>

\* a _JavaScriptCompiler that overrides nothing of _GettextCompiler
_JavaScriptCompilerInherited(name) == _GettextCompiler(name)

\* _JavaScriptCompiler: compile_i gives 'parseInt(n, 10)'; the rest as _GettextCompiler
_JavaScriptCompiler(name) ==
    IF name = "i" THEN <<"p", "a", "r", "s", "e", "I", "n", "t", "(", "n", ",", " ", "1", "0", ")">>
    ELSE IF name \in {"v", "w", "f", "t"} THEN compile_zero
    ELSE _GettextCompiler(name)

\* compiler.compile(ast) for the compiler of a backend
RECURSIVE Compile(_, _)
Compile(backend, ast) ==
    LET op == ast[1]
    IN  IF op \in _VARS
          THEN (IF backend = "javascript" THEN _JavaScriptCompiler(op) ELSE _GettextCompiler(op))
        ELSE IF op = "value" THEN compile_value(ast[2])
        ELSE IF op = "not" THEN _unary_compiler(_Compiler(op), Compile(backend, ast[2]))
        ELSE _binary_compiler(_Compiler(op), Compile(backend, ast[2]), Compile(backend, ast[3]))

\* parts of to_gettext: "(<expr>) ? <idx> : " per entry, then str(len(abstract))
GettextParts(abs_) ==
    [k \in 1..Len(abs_) |->
        <<"(">> \o Compile("gettext", abs_[k][2]) \o <<")", " ", "?", " ">> \o str(k - 1) \o <<" ", ":", " ">>]
    \o <<str(Len(abs_))>>

\* to_gettext of the abstract: ''.join(parts) inside 'nplurals=<n>; plural=(...);'
GettextOf(abs_) ==
    <<"n", "p", "l", "u", "r", "a", "l", "s", "=">> \o str(Len(abs_) + 1) \o <<";", " ", "p", "l", "u", "r", "a", "l", "=", "(">>
        \o join(<<>>, GettextParts(abs_)) \o <<")", ";">>

\* to_gettext(rule), r being PluralRule.parse(rule)
ToGettextWith(r) == IF r.ok THEN Returned(GettextOf(r.abstract)) ELSE r

to_gettext(rule) == ToGettextWith(PluralRuleInit(rule))

\* parts of to_javascript: "(<expr>) ? '<tag>' : " per entry, then "'other'"
JavaScriptParts(abs_) ==
    [k \in 1..Len(abs_) |->
        <<"(">> \o Compile("javascript", abs_[k][2]) \o <<")", " ", "?", " ", "'">> \o abs_[k][1] \o <<"'", " ", ":", " ">>]
    \o <<<<"'", "o", "t", "h", "e", "r", "'">>>>

\* to_javascript of the abstract: ' '.join(parts) inside '(function(n) { return ...; })'
JavaScriptOf(abs_) ==
    <<"(", "f", "u", "n", "c", "t", "i", "o", "n", "(", "n", ")", " ", "{", " ", "r", "e", "t", "u", "r", "n", " ">>
        \o join(<<" ">>, JavaScriptParts(abs_)) \o <<";", " ", "}", ")">>

\* to_javascript(rule), r being PluralRule.parse(rule)
ToJavaScriptWith(r) == IF r.ok THEN Returned(JavaScriptOf(r.abstract)) ELSE r

to_javascript(rule) == ToJavaScriptWith(PluralRuleInit(rule))

(***************************************************************************)
(* to_gettext and to_javascript on their own.                              *)
(***************************************************************************)
\* 'n is 1'
e_is1 == <<"n">> \o sp \o kw_is \o sp \o one
\* 'i is not 1 and v is 0'
e_and == <<"i">> \o sp \o kw_is \o sp \o kw_not \o sp \o one \o sp \o kw_and \o sp
         \o <<"v">> \o sp \o kw_is \o sp \o <<"0">>
\* 'n % 2 is 1 or f is 0'
e_or == <<"n">> \o sp \o <<"%">> \o sp \o two \o sp \o kw_is \o sp \o one \o sp \o kw_or \o sp
        \o <<"f">> \o sp \o kw_is \o sp \o <<"0">>

RenderTags == {tag_few, tag_one, tag_two}
RenderExprs == {e_empty, e_is1, e_is2, e_and, e_or}
RenderInputs == UNION {[1..k -> RenderTags \X RenderExprs] : k \in 0..MaxRules}

InitRender ==
    /\ RuleIdle /\ ParserIdle /\ ModuloIdle /\ twin = NoTwin /\ CatalogIdle /\ ThreadsIdle
    /\ fin \in {[fn |-> "render", rule |-> rs] : rs \in RenderInputs}
    /\ fout = [gettext |-> NotCalled, javascript |-> NotCalled]

\* to_gettext(fin.rule)
ToGettextCall ==
    /\ ~fout.gettext.called
    /\ fout' = [fout EXCEPT !.gettext = to_gettext(fin.rule) @@ [called |-> TRUE]]
    /\ UNCHANGED <<fin, twin>>
    /\ UNCHANGED <<catalog_vars, threads>>
    /\ UNCHANGED plural_vars

\* to_javascript(fin.rule)
ToJavaScriptCall ==
    /\ ~fout.javascript.called
    /\ fout' = [fout EXCEPT !.javascript = to_javascript(fin.rule) @@ [called |-> TRUE]]
    /\ UNCHANGED <<fin, twin>>
    /\ UNCHANGED <<catalog_vars, threads>>
    /\ UNCHANGED plural_vars

NextRender == ToGettextCall \/ ToJavaScriptCall

SpecRender == InitRender /\ [][NextRender]_vars

(***************************************************************************)
(* Two PluralRule instances and their comparison.  The instance of the     *)
(* variables rules, pc, abstract, func is object 1, twin is object 2.      *)
(***************************************************************************)
\* the abstract of object a
AbstractOf(a) == IF a = 1 THEN abstract ELSE twin.abstract

\* an __eq__ that compares the abstracts
AbstractEq(a, b) == AbstractOf(a) = AbstractOf(b)

\* a == b for two PluralRule objects: the class defines no __eq__, so this is
\* object.__eq__, the identity of the objects
object_eq(a, b) == a = b

PairTags == {tag_one}
PairExprs == {e_empty, e_blank, e_is1, e_is2}
PairInputs == UNION {[1..k -> PairTags \X PairExprs] : k \in 0..MaxRules}

\* twin = PluralRule(rs), res being what __init__ gave
TwinConstructWith(rs, res) ==
    twin' = [pc |-> IF res.ok THEN "built" ELSE "failed", rules |-> rs,
             abstract |-> IF res.ok THEN res.abstract ELSE <<>>, func |-> NoFunc]

TwinConstruct(rs) ==
    /\ twin.pc = "new"
    /\ TwinConstructWith(rs, PluralRuleInit(rs))
    /\ UNCHANGED <<fin, fout>>
    /\ UNCHANGED <<catalog_vars, threads>>
    /\ UNCHANGED plural_vars

\* twin(n), f being twin._func or, when that is not set, what to_python(twin) gave
TwinCallWith(n, f) ==
    /\ twin' = [twin EXCEPT !.func = IF f.ok THEN f ELSE twin.func]
    /\ ret' = Outcome("twincall", f, IF f.ok THEN plural(f, n) ELSE <<>>) @@ [n |-> n]

TwinCall(n) ==
    /\ twin.pc = "built"
    /\ TwinCallWith(n, IF twin.func.set THEN twin.func ELSE to_python(twin.abstract))
    /\ UNCHANGED <<rules, pc, abstract, func, ptext, parser, ma, mb, mr>>
    /\ UNCHANGED <<fin, fout>>
    /\ UNCHANGED <<catalog_vars, threads>>

\* a == b, a and b each being one of the two objects
Compare(a, b) ==
    /\ pc = "built" /\ twin.pc = "built"
    /\ ret' = [op |-> "eq", ok |-> TRUE, a |-> a, b |-> b, val |-> object_eq(a, b)]
    /\ UNCHANGED <<rules, pc, abstract, func, ptext, parser, ma, mb, mr>>
    /\ UNCHANGED rest_vars

NextPair ==
    \/ \E rs \in PairInputs : Construct(rs)
    \/ \E rs \in PairInputs : TwinConstruct(rs)
    \/ \E n \in Numbers : Call(n)
    \/ \E n \in Numbers : TwinCall(n)
    \/ \E a \in {1, 2}, b \in {1, 2} : Compare(a, b)

SpecPair == Init /\ [][NextPair]_vars

(***************************************************************************)
(* The operations of a Catalog (babel/messages/catalog.py). Each gives     *)
(* Returned(the catalog afterwards), or the exception raised together with *)
(* the catalog as the exception leaves it.                                 *)
(***************************************************************************)
RaisedWith(kind, cat) == [ok |-> FALSE, kind |-> kind, val |-> cat]

\* a merge that puts the locations of the new message first
MergedNewFirst(current, message) ==
    [current EXCEPT !.locations = distinct(message.locations \o current.locations),
                    !.flags = @ \cup message.flags]

\* the message of catalog[key] = message when current is already under that key
Merged(current, message) ==
    LET replace == pluralizable(message.id) /\ ~pluralizable(current.id)
    IN [current EXCEPT !.id = IF replace THEN message.id ELSE @,
                       !.string = IF replace THEN message.string ELSE @,
                       !.locations = distinct(current.locations \o message.locations),
                       !.flags = @ \cup message.flags]

\* catalog[id] = message, key being _key_for(id, message.context)
SetItemWith(cat, id, message, key) ==
    IF DictHas(cat.messages, key)
    THEN Returned([cat EXCEPT !.messages =
                       DictSet(@, key, Merged(DictGet(cat.messages, key), message))])
    ELSE IF id.type = "str" /\ id.s = <<>>
    THEN Returned([cat EXCEPT !.mime_headers = message.string, !.fuzzy = fuzzy(message)])
    ELSE IF id.type = "tuple" /\ message.string.type # "tuple"
    THEN RaisedWith("AssertionError", cat)
    ELSE Returned([cat EXCEPT !.messages = DictSet(@, key, message)])

__setitem__(cat, id, message) == SetItemWith(cat, id, message, _key_for(id, message.context))

\* catalog.add(id, string, locations, flags, context=context)
add(cat, id, string, locations, flags, context) ==
    __setitem__(cat, id, Message(id, string, locations, flags, context))

\* catalog.delete(id, context)
DeleteWith(cat, key) ==
    IF DictHas(cat.messages, key) THEN [cat EXCEPT !.messages = DictDel(@, key)] ELSE cat

delete(cat, id, context) == Returned(DeleteWith(cat, _key_for(id, context)))

\* ---- get_close_matches (difflib.SequenceMatcher with autojunk=False) ----
\* the length of the run on which a from i and b from j agree
RECURSIVE MatchRun(_, _, _, _, _, _)
MatchRun(a, i, ahi, b, j, bhi) ==
    IF i <= ahi /\ j <= bhi /\ a[i] = b[j] THEN 1 + MatchRun(a, i + 1, ahi, b, j + 1, bhi)
    ELSE 0

\* SequenceMatcher.find_longest_match on a[alo..ahi] and b[blo..bhi]: the longest
\* block, of those the one that starts earliest in a, of those earliest in b
find_longest_match(a, alo, ahi, b, blo, bhi) ==
    LET starts == (alo..ahi) \X (blo..bhi)
        run(c) == MatchRun(a, c[1], ahi, b, c[2], bhi)
        best == CHOOSE c \in starts :
                    \A d \in starts :
                        \/ run(d) < run(c)
                        \/ run(d) = run(c) /\ (c[1] < d[1] \/ (c[1] = d[1] /\ c[2] <= d[2]))
    IN [i |-> best[1], j |-> best[2], size |-> run(best)]

\* the number of matching characters: the longest block, then the same to its
\* left and to its right (SequenceMatcher.get_matching_blocks)
RECURSIVE Matches(_, _, _, _, _, _)
RECURSIVE MatchesWith(_, _, _, _, _, _, _)
MatchesWith(a, alo, ahi, b, blo, bhi, m) ==
    IF m.size = 0 THEN 0
    ELSE m.size + Matches(a, alo, m.i - 1, b, blo, m.j - 1)
                + Matches(a, m.i + m.size, ahi, b, m.j + m.size, bhi)

Matches(a, alo, ahi, b, blo, bhi) ==
    IF alo > ahi \/ blo > bhi THEN 0
    ELSE MatchesWith(a, alo, ahi, b, blo, bhi, find_longest_match(a, alo, ahi, b, blo, bhi))

\* SequenceMatcher.ratio() of seq1 a and seq2 b as the fraction num / den
ratio(a, b) ==
    IF Len(a) + Len(b) = 0 THEN [num |-> 1, den |-> 1]
    ELSE [num |-> 2 * Matches(a, 1, Len(a), b, 1, Len(b)), den |-> Len(a) + Len(b)]

\* cutoff=0.7
CutoffNum == 7
CutoffDen == 10

\* (score1, x1) > (score2, x2), as nlargest compares the tuples
ScoredAbove(c1, c2) ==
    \/ c1.score.num * c2.score.den > c2.score.num * c1.score.den
    \/ /\ c1.score.num * c2.score.den = c2.score.num * c1.score.den
       /\ StrLess(c2.x, c1.x)

\* nlargest(1, result), scores stripped
Largest(result) ==
    IF result = {} THEN <<>>
    ELSE <<(CHOOSE c \in result : \A d \in result : ~ScoredAbove(d, c)).x>>

\* get_close_matches(word, possibilities, n=1, cutoff=0.7). quick_ratio and
\* real_quick_ratio are upper bounds of ratio, so ratio decides.
get_close_matches(word, possibilities) ==
    Largest({c \in {[score |-> ratio(possibilities[k], word), x |-> possibilities[k]] :
                       k \in 1..Len(possibilities)} :
                c.score.num * CutoffDen >= CutoffNum * c.score.den})

\* Catalog._to_fuzzy_match_key(key): a tuple is taken to be (id, context)
_to_fuzzy_match_key(key) ==
    IF key.type = "tuple"
    THEN lower(key.items[1])
         \o (IF key.items[2] # <<>> THEN <<NUL>> \o lower(key.items[2]) ELSE <<>>)
    ELSE lower(key.s)

\* the fuzzy_matches found for a template message (none when not looked for)
FuzzyMatches(message, remaining, no_fuzzy_matching) ==
    IF no_fuzzy_matching THEN <<>>
    ELSE get_close_matches(_to_fuzzy_match_key(message.id),
                           [k \in 1..Len(remaining) |->
                                _to_fuzzy_match_key(remaining[k].key)])

\* the first key of remaining that has the fuzzy match key match
FuzzyKey(remaining, match) ==
    remaining[CHOOSE k \in 1..Len(remaining) :
                  /\ _to_fuzzy_match_key(remaining[k].key) = match
                  /\ \A h \in 1..(k - 1) : _to_fuzzy_match_key(remaining[h].key) # match].key

\* The loop of update over the messages of the template. A fuzzy match is taken
\* out of remaining and then 'current.fuzzy = True' raises AttributeError: fuzzy
\* is a property without a setter.
RECURSIVE UpdateLoop(_, _, _, _)
UpdateLoop(todo, remaining, messages, no_fuzzy_matching) ==
    IF todo = <<>> THEN [ok |-> TRUE, remaining |-> remaining, messages |-> messages]
    ELSE IF ~Truthy(todo[1].id)
    THEN UpdateLoop(Tail(todo), remaining, messages, no_fuzzy_matching)
    ELSE IF DictHas(remaining, _key_for(todo[1].id, todo[1].context))
    THEN UpdateLoop(Tail(todo),
                    DictDel(remaining, _key_for(todo[1].id, todo[1].context)),
                    DictSet(messages, _key_for(todo[1].id, todo[1].context),
                            [DictGet(remaining, _key_for(todo[1].id, todo[1].context))
                                EXCEPT !.locations = todo[1].locations]),
                    no_fuzzy_matching)
    ELSE IF FuzzyMatches(todo[1], remaining, no_fuzzy_matching) # <<>>
    THEN [ok |-> FALSE, kind |-> "AttributeError", messages |-> messages,
          remaining |-> DictDel(remaining,
                                FuzzyKey(remaining,
                                         FuzzyMatches(todo[1], remaining, FALSE)[1]))]
    ELSE UpdateLoop(Tail(todo), remaining,
                    DictSet(messages, _key_for(todo[1].id, todo[1].context),
                            Message(todo[1].id, todo[1].string, todo[1].locations,
                                    todo[1].flags, todo[1].context)),
                    no_fuzzy_matching)

\* an update that moves the messages left over to obsolete and stores nothing
UpdateStoringNothing(cat, r) ==
    IF r.ok THEN Returned([cat EXCEPT !.obsolete = DictUpdate(@, r.remaining)])
    ELSE RaisedWith(r.kind, cat)

\* catalog.update(template, no_fuzzy_matching): r is what the loop gave
UpdateWith(cat, r) ==
    IF r.ok
    THEN Returned([cat EXCEPT !.messages = r.messages,
                              !.obsolete = DictUpdate(@, r.remaining)])
    ELSE RaisedWith(r.kind, [cat EXCEPT !.messages = r.messages])

update(cat, template, no_fuzzy_matching) ==
    UpdateWith(cat, UpdateLoop(iter(template), cat.messages, <<>>, no_fuzzy_matching))

(***************************************************************************)
(* A Catalog under add, __setitem__, delete and update.                    *)
(***************************************************************************)
id_Ab == <<"A", "b">>
id_abc == <<"a", "b", "c">>
id_fmt == <<"%", "s">>
ctx == <<"c">>
text_t == <<"t">>
loc_main == <<"main.py", 1>>
loc_utils == <<"utils.py", 5>>

\* the arguments of Message(...) and of catalog.add(...)
Args(id, string, locations, flags, context) ==
    [id |-> id, string |-> string, locations |-> locations, flags |-> flags,
     context |-> context]

a_Ab == Args(PyStr(id_Ab), PyStr(text_t), <<loc_main>>, {"x"}, PyNone)
a_Ab_again == Args(PyStr(id_Ab), PyNone, <<loc_utils, loc_main>>, {"fuzzy"}, PyNone)
a_Ab_plural == Args(PyTuple(<<id_Ab, id_fmt>>), PyNone, <<loc_utils>>, {}, PyNone)
a_Ab_plain == Args(PyTuple(<<id_Ab, id_abc>>), PyNone, <<>>, {}, PyNone)
a_Ab_ctx == Args(PyStr(id_Ab), PyNone, <<loc_main>>, {}, PyStr(ctx))
a_abc == Args(PyStr(id_abc), PyNone, <<loc_utils>>, {"python-format"}, PyNone)
a_fmt == Args(PyStr(id_fmt), PyNone, <<>>, {}, PyNone)
a_header == Args(PyStr(<<>>), PyStr(text_t), <<>>, {}, PyNone)
a_header_ctx == Args(PyStr(<<>>), PyNone, <<>>, {"fuzzy"}, PyStr(ctx))

AddInputs ==
    {a_Ab, a_Ab_again, a_Ab_plural, a_Ab_plain, a_Ab_ctx, a_abc, a_fmt, a_header, a_header_ctx}

MessageOf(a) == Message(a.id, a.string, a.locations, a.flags, a.context)

\* catalog[id] = message with an id that is not the id of the message
SetItemInputs == {[id |-> PyStr(id_abc), message |-> MessageOf(a_Ab_again)],
                  [id |-> PyStr(id_abc), message |-> MessageOf(a_header)],
                  [id |-> PyStr(id_Ab), message |-> MessageOf(a_fmt)]}

DeleteInputs == {[id |-> PyStr(id_Ab), context |-> PyNone],
                 [id |-> PyTuple(<<id_Ab, id_fmt>>), context |-> PyStr(ctx)]}

\* a Catalog to which the messages of the arguments were added in turn
RECURSIVE CatalogOf(_)
CatalogOf(as) ==
    IF as = <<>> THEN EmptyCatalog
    ELSE LET a == as[Len(as)]
         IN add(CatalogOf(SubSeq(as, 1, Len(as) - 1)),
                a.id, a.string, a.locations, a.flags, a.context).val

t_Ab == Args(PyStr(id_Ab), PyNone, <<loc_utils>>, {}, PyNone)
t_abc == Args(PyStr(id_abc), PyNone, <<loc_main>>, {}, PyNone)

TemplateInputs ==
    {CatalogOf(<<t_abc>>), CatalogOf(<<t_abc, t_Ab>>), CatalogOf(<<a_fmt>>)}

\* the keys stored at some time up to now, in the order first stored
FirstAdded(before, cat) ==
    before \o SelectSeq(DictKeys(cat.messages),
                        LAMBDA key : \A h \in 1..Len(before) : before[h] # key)

\* what an operation with arguments op and outcome r leaves behind
CatalogOutcome(op, r) ==
    /\ cops < MaxOps
    /\ cops' = cops + 1
    /\ catalog' = r.val
    /\ cret' = [op EXCEPT !.ok = r.ok]
    /\ added' = FirstAdded(added, r.val)
    /\ UNCHANGED plural_vars
    /\ UNCHANGED <<fin, fout, twin, threads>>

\* catalog.add(a.id, a.string, a.locations, a.flags, context=a.context)
Add(a) ==
    CatalogOutcome([op |-> "add", id |-> a.id, message |-> MessageOf(a), ok |-> TRUE],
                   add(catalog, a.id, a.string, a.locations, a.flags, a.context))

\* catalog[i.id] = i.message
SetItem(i) ==
    CatalogOutcome([op |-> "setitem", id |-> i.id, message |-> i.message, ok |-> TRUE],
                   __setitem__(catalog, i.id, i.message))

\* catalog.delete(d.id, d.context)
Delete(d) ==
    CatalogOutcome([op |-> "delete", id |-> d.id, context |-> d.context, ok |-> TRUE],
                   delete(catalog, d.id, d.context))

\* catalog.update(template, no_fuzzy_matching)
Update(template, no_fuzzy_matching) ==
    CatalogOutcome([op |-> "update", template |-> template,
                    no_fuzzy_matching |-> no_fuzzy_matching, ok |-> TRUE],
                   update(catalog, template, no_fuzzy_matching))

NextCatalog ==
    \/ \E a \in AddInputs : Add(a)
    \/ \E i \in SetItemInputs : SetItem(i)
    \/ \E d \in DeleteInputs : Delete(d)
    \/ \E template \in TemplateInputs, no_fuzzy_matching \in BOOLEAN :
           Update(template, no_fuzzy_matching)

SpecCatalog == Init /\ [][NextCatalog]_vars

\* a Catalog under add and __setitem__ only
NextAssign ==
    \/ \E a \in AddInputs : Add(a)
    \/ \E i \in SetItemInputs : SetItem(i)

SpecAssign == Init /\ [][NextAssign]_vars

(***************************************************************************)
(* Two threads that make their first calls on one PluralRule instance.     *)
(* A thread is switched between the hasattr check, the call of to_python,  *)
(* the assignment of self._func and the call of self._func.                *)
(***************************************************************************)
ThreadRuleInputs ==
    {<<>>, <<<<tag_one, e_empty>>>>, <<<<tag_one, e_is2>>>>,
     <<<<tag_few, e_rich>>, <<tag_one, e_is2>>>>}

Thread(n) == [pc |-> "start", n |-> n, tmp |-> NoFunc, res |-> [op |-> "none"]]

InitThreads ==
    /\ \E rs \in ThreadRuleInputs :
          /\ rules = rs
          /\ pc = "built"
          /\ abstract = PluralRuleInit(rs).abstract
          /\ ret = Outcome("init", PluralRuleInit(rs), <<>>)
    /\ func = NoFunc
    /\ ParserIdle /\ ModuloIdle
    /\ fin = NoCall /\ fout = NoCall /\ twin = NoTwin /\ CatalogIdle
    /\ threads \in [1..2 -> {Thread(n) : n \in Numbers}]

\* a thread that takes an evaluator for cached as soon as one is being compiled
HasattrEarly(t) ==
    /\ threads[t].pc = "start"
    /\ threads' = [threads EXCEPT ![t].pc = IF \E u \in 1..2 : threads[u].pc # "start"
                                             THEN "run" ELSE "compile"]
    /\ UNCHANGED func

\* if not hasattr(self, '_func')
Hasattr(t) ==
    /\ threads[t].pc = "start"
    /\ threads' = [threads EXCEPT ![t].pc = IF func.set THEN "run" ELSE "compile"]
    /\ UNCHANGED func

\* to_python(self), f being what it gave: an exception ends the call
CompileWith(t, f) ==
    /\ threads' = [threads EXCEPT ![t].tmp = f,
                                  ![t].pc = IF f.ok THEN "store" ELSE "done",
                                  ![t].res = IF f.ok THEN @ ELSE Outcome("call", f, <<>>)]
    /\ UNCHANGED func

ThreadCompile(t) == threads[t].pc = "compile" /\ CompileWith(t, to_python(abstract))

\* self._func = <what to_python gave>
ThreadStore(t) ==
    /\ threads[t].pc = "store"
    /\ func' = threads[t].tmp
    /\ threads' = [threads EXCEPT ![t].pc = "run"]

\* self._func(n), f being self._func as it is now
RunFunc(f, n) ==
    IF f.set THEN [op |-> "call", ok |-> TRUE, val |-> plural(f, n)]
    ELSE Outcome("call", Raise("AttributeError", "_func", <<>>), <<>>)

\* return self._func(n)
ThreadRun(t) ==
    /\ threads[t].pc = "run"
    /\ threads' = [threads EXCEPT ![t].pc = "done", ![t].res = RunFunc(func, threads[t].n)]
    /\ UNCHANGED func

ThreadStep(t) ==
    /\ \/ Hasattr(t)
       \/ ThreadCompile(t)
       \/ ThreadStore(t)
       \/ ThreadRun(t)
    /\ UNCHANGED <<rules, pc, abstract, ret, ptext, parser, ma, mb, mr>>
    /\ UNCHANGED <<fin, fout, twin>>
    /\ UNCHANGED catalog_vars

NextThreads == \E t \in 1..2 : ThreadStep(t)

SpecThreads == InitThreads /\ [][NextThreads]_vars

(***************************************************************************)
(* The gettext and the JavaScript compiler on a node on their own.         *)
(***************************************************************************)
OperandNodes == {<<name>> : name \in _VARS}
ValueNodes == {<<"value", v>> : v \in 0..MaxNumber}
ModNodes == {<<"mod", x, v>> : x \in OperandNodes, v \in ValueNodes}
IsNodes == {<<op, x, v>> : op \in {"is", "isnot"}, x \in OperandNodes \cup ModNodes,
                           v \in ValueNodes}
NotNodes == {<<"not", r>> : r \in IsNodes}
\* 'x is 1' for each operand x
OperandIsOne == {<<"is", x, <<"value", 1>>>> : x \in OperandNodes}
JunctionNodes == {<<op, l, r>> : op \in {"and", "or"}, l \in OperandIsOne, r \in OperandIsOne}
CompileInputs ==
    OperandNodes \cup ValueNodes \cup ModNodes \cup IsNodes \cup NotNodes \cup JunctionNodes

InitCompile ==
    /\ RuleIdle /\ ParserIdle /\ ModuloIdle /\ twin = NoTwin /\ CatalogIdle /\ ThreadsIdle
    /\ fin \in {[fn |-> "compile", ast |-> ast] : ast \in CompileInputs}
    /\ fout = [gettext |-> NotCalled, javascript |-> NotCalled]

\* _GettextCompiler().compile(fin.ast)
GettextCompileCall ==
    /\ ~fout.gettext.called
    /\ fout' = [fout EXCEPT !.gettext = [called |-> TRUE, val |-> Compile("gettext", fin.ast)]]
    /\ UNCHANGED <<fin, twin>>
    /\ UNCHANGED <<catalog_vars, threads>>
    /\ UNCHANGED plural_vars

\* _JavaScriptCompiler().compile(fin.ast)
JavaScriptCompileCall ==
    /\ ~fout.javascript.called
    /\ fout' = [fout EXCEPT !.javascript =
                    [called |-> TRUE, val |-> Compile("javascript", fin.ast)]]
    /\ UNCHANGED <<fin, twin>>
    /\ UNCHANGED <<catalog_vars, threads>>
    /\ UNCHANGED plural_vars

NextCompile == GettextCompileCall \/ JavaScriptCompileCall

SpecCompile == InitCompile /\ [][NextCompile]_vars

(***************************************************************************)
(* tokenize_rule on its own.                                               *)
(***************************************************************************)
\* the characters of the texts: a space, letters of words, a digit, symbols,
\* a dot and a character of no pattern
TokenizeChars == {" ", "i", "n", "1", "=", "!", ".", "@"}
TokenizeInputs == UNION {[1..k -> TokenizeChars] : k \in 0..MaxText}

InitTokenize ==
    /\ RuleIdle /\ ParserIdle /\ ModuloIdle /\ twin = NoTwin /\ CatalogIdle /\ ThreadsIdle
    /\ fin \in {[fn |-> "tokenize", text |-> text] : text \in TokenizeInputs}
    /\ fout = NotCalled

\* tokenize_rule(fin.text)
TokenizeCall ==
    /\ ~fout.called
    /\ fout' = [called |-> TRUE, res |-> tokenize_rule(fin.text)]
    /\ UNCHANGED <<fin, twin>>
    /\ UNCHANGED <<catalog_vars, threads>>
    /\ UNCHANGED plural_vars

SpecTokenize == InitTokenize /\ [][TokenizeCall]_vars

(***************************************************************************)
(* The JavaScript lexer (babel/messages/jslexer.py). A match of a pattern  *)
(* at a position is the number of characters it takes, 0 when the pattern  *)
(* does not match there (no pattern of _rules matches the empty text).     *)
(***************************************************************************)
\* the operators, sorted(..., key=len, reverse=True)
operators ==
    <<<<">", ">", ">", "=">>, <<">", ">", ">">>, <<"<", "<", "=">>, <<">", ">", "=">>,
      <<"!", "=">>, <<"=", "=">>, <<"<", "=">>, <<">", "=">>, <<"+", "=">>,
      <<"-", "=">>, <<"*", "=">>, <<"%", "=">>, <<"<", "<">>, <<">", ">">>,
      <<"&", "=">>, <<"|", "=">>, <<"&", "&">>, <<"|", "|">>, <<"^", "=">>,
      <<"-", "-">>, <<"+", "+">>, <<"+">>, <<"-">>, <<"*">>, <<"%">>, <<"<">>, <<">">>,
      <<"=">>, <<"&">>, <<"|">>, <<"^">>, <<"(">>, <<")">>, <<"[">>, <<"]">>, <<"{">>,
      <<"}">>, <<"!">>, <<"~">>, <<",">>, <<";">>, <<".">>, <<":">>>>

\* escapes; "BS" and "FF" stand for "\x08" and "\x0c"
escapes == [b |-> "BS", f |-> "FF", n |-> "\n", r |-> "\r", t |-> "\t"]

\* \s and \w of Python's re
JsSpace == {" ", "\t", "\n", "\r"}
JsWord == WordChars \cup {UpperCase[k] : k \in 1..Len(UpperCase)}
HexDigits == <<"0", "1", "2", "3", "4", "5", "6", "7", "8", "9", "a", "b", "c", "d", "e", "f">>
HexSet == {HexDigits[k] : k \in 1..16} \cup {"A", "B", "C", "D", "E", "F"}

\* the length of the longest run of characters not of set cs starting at p
RECURSIVE RunNot(_, _, _)
RunNot(text, p, cs) ==
    IF p <= Len(text) /\ text[p] \notin cs THEN 1 + RunNot(text, p + 1, cs) ELSE 0

\* len(line_re.findall(text)): "\r\n", "\n" and "\r" are one line break each
RECURSIVE LineBreaks(_)
LineBreaks(text) ==
    IF text = <<>> THEN 0
    ELSE IF HasAt(text, 1, <<"\r", "\n">>) THEN 1 + LineBreaks(SubSeq(text, 3, Len(text)))
    ELSE IF text[1] \in {"\n", "\r"} THEN 1 + LineBreaks(Tail(text))
    ELSE LineBreaks(Tail(text))

\* text.replace("\r\n", "\n").replace("\r", "\n")
RECURSIVE ReplaceLineEnds(_)
ReplaceLineEnds(text) ==
    IF text = <<>> THEN <<>>
    ELSE IF HasAt(text, 1, <<"\r", "\n">>)
      THEN <<"\n">> \o ReplaceLineEnds(SubSeq(text, 3, Len(text)))
    ELSE IF text[1] = "\r" THEN <<"\n">> \o ReplaceLineEnds(Tail(text))
    ELSE <<text[1]>> \o ReplaceLineEnds(Tail(text))

\* ---- the patterns of _rules ----
\* \s+
MatchJsSpace(text, p) == RunLen(text, p, JsSpace)

\* <!--.*
MatchHtmlComment(text, p) ==
    IF HasAt(text, p, <<"<", "!", "-", "-">>) THEN 4 + RunNot(text, p + 4, {"\n"}) ELSE 0

\* //.*
MatchLineComment(text, p) ==
    IF HasAt(text, p, <<"/", "/">>) THEN 2 + RunNot(text, p + 2, {"\n"}) ELSE 0

\* /\*.*?\*/ with DOTALL: up to the first '*/' after the '/*'
MatchMultilineComment(text, p) ==
    IF HasAt(text, p, <<"/", "*">>) /\ \E q \in (p + 2)..Len(text) : HasAt(text, q, <<"*", "/">>)
    THEN (CHOOSE q \in (p + 2)..Len(text) :
              /\ HasAt(text, q, <<"*", "/">>)
              /\ \A h \in (p + 2)..(q - 1) : ~HasAt(text, h, <<"*", "/">>)) + 2 - p
    ELSE 0

\* dotted_name_re: [\w$_][\w\d$_.]*[\w\d$_.]
MatchDottedName(text, p) ==
    IF p <= Len(text) /\ text[p] \in JsWord \cup {"$"}
       /\ RunLen(text, p + 1, JsWord \cup {"$", "."}) >= 1
    THEN 1 + RunLen(text, p + 1, JsWord \cup {"$", "."})
    ELSE 0

\* name_re: [\w$_][\w\d$_]*
MatchName(text, p) ==
    IF p <= Len(text) /\ text[p] \in JsWord \cup {"$"}
    THEN 1 + RunLen(text, p + 1, JsWord \cup {"$"})
    ELSE 0

\* (\.\d+)? at q
FractionLen(text, q) ==
    IF HasAt(text, q, <<".">>) /\ RunLen(text, q + 1, DigitSet) >= 1
    THEN 1 + RunLen(text, q + 1, DigitSet) ELSE 0

\* ([eE][-+]?\d+)? at q
ExponentLen(text, q) ==
    IF q <= Len(text) /\ text[q] \in {"e", "E"}
    THEN IF RunLen(text, q + 1, DigitSet) >= 1 THEN 1 + RunLen(text, q + 1, DigitSet)
         ELSE IF q + 1 <= Len(text) /\ text[q + 1] \in {"-", "+"}
                 /\ RunLen(text, q + 2, DigitSet) >= 1
           THEN 2 + RunLen(text, q + 2, DigitSet)
         ELSE 0
    ELSE 0

\* (?:0|[1-9]\d*) at p
IntegerLen(text, p) ==
    IF HasAt(text, p, <<"0">>) THEN 1
    ELSE IF p <= Len(text) /\ text[p] \in DigitSet THEN RunLen(text, p, DigitSet)
    ELSE 0

\* the number pattern: its first alternative matches wherever the second
\* (0x...) could, so the first is the one taken
MatchNumberWith(text, p, n) ==
    IF n = 0 THEN 0
    ELSE n + FractionLen(text, p + n) + ExponentLen(text, p + n + FractionLen(text, p + n))

MatchNumber(text, p) == MatchNumberWith(text, p, IntegerLen(text, p))

\* (?:</?[^>\s]+|/>): the '/' after '<' is itself one of [^>\s]
MatchJsxTag(text, p) ==
    IF HasAt(text, p, <<"<">>) /\ RunNot(text, p + 1, JsSpace \cup {">"}) >= 1
    THEN 1 + RunNot(text, p + 1, JsSpace \cup {">"})
    ELSE IF HasAt(text, p, <<"/", ">">>) THEN 2
    ELSE 0

\* the alternation of the operators: the first in the sorted list that is at p
MatchOperator(text, p) ==
    IF \E k \in 1..Len(operators) : HasAt(text, p, operators[k])
    THEN Len(operators[CHOOSE k \in 1..Len(operators) :
                           /\ HasAt(text, p, operators[k])
                           /\ \A h \in 1..(k - 1) : ~HasAt(text, p, operators[h])])
    ELSE 0

\* the position of the closing quote of a literal whose inside starts at p, 0 if
\* there is none: q(?:[^q\\]*(?:\\.[^q\\]*)*)q, where . takes a line break
\* only with DOTALL
RECURSIVE QuoteEnd(_, _, _, _)
QuoteEnd(text, p, quote, dotall) ==
    IF p > Len(text) THEN 0
    ELSE IF text[p] = quote THEN p
    ELSE IF text[p] = "\\"
      THEN IF p + 1 <= Len(text) /\ (dotall \/ text[p + 1] # "\n")
           THEN QuoteEnd(text, p + 2, quote, dotall) ELSE 0
    ELSE QuoteEnd(text, p + 1, quote, dotall)

MatchQuotedWith(p, e) == IF e = 0 THEN 0 ELSE e - p + 1

MatchQuoted(text, p, quote, dotall) ==
    IF HasAt(text, p, <<quote>>) THEN MatchQuotedWith(p, QuoteEnd(text, p + 1, quote, dotall))
    ELSE 0

\* the character that stands for the back-tick
BackTick == "BT"

\* the template_string pattern (no DOTALL)
MatchTemplateString(text, p) == MatchQuoted(text, p, BackTick, FALSE)

\* the string pattern (DOTALL)
MatchString(text, p) ==
    IF HasAt(text, p, <<"'">>) THEN MatchQuoted(text, p, "'", TRUE)
    ELSE MatchQuoted(text, p, "\"", TRUE)

\* _rules: the token types in order, "skip" for None
RuleTypes ==
    <<"skip", "skip", "linecomment", "multilinecomment", "dotted_name", "name", "number",
      "jsx_tag", "operator", "template_string", "string">>

\* rule.match(source, pos) of rule k of _rules
_rules(k, text, p) ==
    CASE k = 1 -> MatchJsSpace(text, p)
      [] k = 2 -> MatchHtmlComment(text, p)
      [] k = 3 -> MatchLineComment(text, p)
      [] k = 4 -> MatchMultilineComment(text, p)
      [] k = 5 -> MatchDottedName(text, p)
      [] k = 6 -> MatchName(text, p)
      [] k = 7 -> MatchNumber(text, p)
      [] k = 8 -> MatchJsxTag(text, p)
      [] k = 9 -> MatchOperator(text, p)
      [] k = 10 -> MatchTemplateString(text, p)
      [] k = 11 -> MatchString(text, p)

\* match.groups(): only the number, operator and string patterns have a group,
\* and it is around the whole pattern; the other patterns have none
groups(k, matched) ==
    IF RuleTypes[k] \in {"number", "operator", "string"} THEN <<matched>> ELSE <<>>

\* get_rules(jsx, dotted, template_string): the rules kept, in order
get_rules(jsx, dotted, template_string) ==
    SelectSeq([k \in 1..Len(RuleTypes) |-> k],
              LAMBDA k : /\ jsx \/ RuleTypes[k] # "jsx_tag"
                         /\ dotted \/ RuleTypes[k] # "dotted_name"
                         /\ template_string \/ RuleTypes[k] # "template_string")

\* ---- unquote_string ----
\* int(text, 16) of hex digits
RECURSIVE HexValue(_)
HexValue(text) ==
    IF text = <<>> THEN 0
    ELSE 16 * HexValue(SubSeq(text, 1, Len(text) - 1))
         + ((CHOOSE k \in 1..16 : HexDigits[k] = lower_char(text[Len(text)])) - 1)

\* chr(v): the line breaks are kept, "chr" stands for every other character
chr(v) == IF v = 10 THEN "\n" ELSE IF v = 13 THEN "\r" ELSE "chr"

\* the number of hex digits at p, at most most
HexRun(string, p, most) ==
    IF RunLen(string, p, HexSet) > most THEN most ELSE RunLen(string, p, HexSet)

\* the loop of unquote_string from position pos (1-based) of the inside
RECURSIVE UnquoteLoop(_, _, _)
\* after a backslash, ch = string[pos] being the character that follows it
UnquoteEscape(string, pos, result, ch) ==
    IF ch \in DOMAIN escapes THEN UnquoteLoop(string, pos + 1, Append(result, escapes[ch]))
    ELSE IF ch = "u"
      THEN IF HexRun(string, pos + 1, 4) = 0
           THEN Raise("ValueError", "Invalid unicode escape", <<>>)
           ELSE UnquoteLoop(string, pos + 5,
                    Append(result,
                           chr(HexValue(SubSeq(string, pos + 1, pos + HexRun(string, pos + 1, 4))))))
    ELSE IF ch = "x"
      THEN IF HexRun(string, pos + 1, 2) = 0
           THEN Raise("ValueError", "Invalid hex escape", <<>>)
           ELSE UnquoteLoop(string, pos + 3,
                    Append(result,
                           chr(HexValue(SubSeq(string, pos + 1, pos + HexRun(string, pos + 1, 2))))))
    ELSE UnquoteLoop(string, pos + 1, Append(result, ch))

UnquoteLoop(string, pos, result) ==
    IF pos > Len(string) THEN Returned(result)
    ELSE IF string[pos] # "\\" THEN UnquoteLoop(string, pos + 1, Append(result, string[pos]))
    ELSE IF pos + 1 > Len(string) THEN Raise("ValueError", "Invalid escape sequence", <<>>)
    ELSE UnquoteEscape(string, pos + 1, result, string[pos + 1])

\* unquote_string(string)
unquote_string(string) ==
    IF string[1] \notin {"'", "\"", BackTick}
    THEN Raise("ValueError", "string must start with a quote", <<>>)
    ELSE UnquoteLoop(SubSeq(string, 2, Len(string) - 1), 1, <<>>)

\* ---- tokenize ----
Token(type, text, lineno) == [type |-> type, value |-> text, lineno |-> lineno]

\* source.replace("\r\n", "\n").replace("\r", "\n") + "\n"
SourceOf(source) == ReplaceLineEnds(source) \o <<"\n">>

\* the first rule of the kept rules that matches source at pos (0-based), 0 if none does
FirstRule(kept, source, pos) ==
    IF \E j \in 1..Len(kept) : _rules(kept[j], source, pos + 1) > 0
    THEN kept[CHOOSE j \in 1..Len(kept) :
                  /\ _rules(kept[j], source, pos + 1) > 0
                  /\ \A h \in 1..(j - 1) : _rules(kept[h], source, pos + 1) = 0]
    ELSE 0

\* the generator tokenize(source, ...) before its first step
Generator(lineno) ==
    [state |-> "running", pos |-> 0, lineno |-> lineno, last_token |-> None, tokens |-> <<>>]

\* the generator after yielding token and going on at pos
Yield(g, token, pos, lineno, last_token) ==
    [g EXCEPT !.tokens = Append(@, token), !.pos = pos, !.lineno = lineno,
              !.last_token = last_token]

\* the generator after an exception
Raised(g, kind) == [g EXCEPT !.state = "raised"] @@ [kind |-> kind]

\* value of a string or template_string token: unquoted, or as matched when
\* unquote_string raises ValueError
StringValue(matched, r) == IF r.ok THEN r.val ELSE matched

\* a string or template_string token: lineno is advanced before the yield
YieldString(g, type, matched, unquoted, end) ==
    Yield(g, Token(type, unquoted, g.lineno + LineBreaks(unquoted)), end,
          g.lineno + LineBreaks(unquoted), Token(type, matched, g.lineno + LineBreaks(unquoted)))

\* One round of the loop after rule k matched up to end, gs being
\* match.groups(). Every branch for a token type reads groups[0] first. Where
\* the name pattern matches, division_re and regex_re ('/...') do not, so the
\* name branch yields the name.
LoopBody(g, k, gs, end) ==
    IF RuleTypes[k] = "skip" THEN [g EXCEPT !.pos = end]
    ELSE IF gs = <<>> THEN Raised(g, "IndexError")
    ELSE IF RuleTypes[k] \in {"linecomment", "multilinecomment"}
      THEN [g EXCEPT !.pos = end, !.lineno = @ + LineBreaks(gs[1]),
                     !.last_token = Token(RuleTypes[k], gs[1], g.lineno + LineBreaks(gs[1]))]
    ELSE IF RuleTypes[k] \in {"string", "template_string"}
      THEN YieldString(g, RuleTypes[k], gs[1], StringValue(gs[1], unquote_string(gs[1])), end)
    ELSE Yield(g, Token(RuleTypes[k], gs[1], g.lineno), end, g.lineno,
               Token(RuleTypes[k], gs[1], g.lineno))

\* one round of the while loop of tokenize, k being the first rule that matches
\* at g.pos (0 when none does: the character is yielded as an operator)
LoopWith(g, source, k) ==
    IF k = 0
    THEN Yield(g, Token("operator", <<source[g.pos + 1]>>, g.lineno), g.pos + 1, g.lineno,
               g.last_token)
    ELSE LoopBody(g, k,
                  groups(k, SubSeq(source, g.pos + 1, g.pos + _rules(k, source, g.pos + 1))),
                  g.pos + _rules(k, source, g.pos + 1))

\* the generator resumed: a round of the loop, or the end of the generator
Resume(g, source, kept) ==
    IF g.pos < Len(source) THEN LoopWith(g, source, FirstRule(kept, source, g.pos))
    ELSE [g EXCEPT !.state = "done"]

(***************************************************************************)
(* tokenize of the JavaScript lexer, one round of its loop at a time.      *)
(***************************************************************************)
\* the pieces the sources are made of: white space and line ends, operators,
\* a character of no pattern, names, the starts of comments and tags, quotes,
\* and two string literals with a line break in them (raw, and as the escape \n)
JsPieces ==
    {<<" ">>, <<"\n">>, <<"\r">>, <<"+">>, <<"@">>, <<"a">>, <<".">>, <<"/">>, <<"*">>,
     <<"<">>, <<BackTick>>, <<"'">>, <<"'", "\n", "'">>, <<"'", "\\", "n", "'">>}

\* the pieces put one after the other
RECURSIVE Concat(_)
Concat(pieces) == IF pieces = <<>> THEN <<>> ELSE pieces[1] \o Concat(Tail(pieces))

JsSources == {Concat(pieces) : pieces \in UNION {[1..k -> JsPieces] : k \in 0..MaxPieces}}

InitLexer ==
    /\ RuleIdle /\ ParserIdle /\ ModuloIdle /\ twin = NoTwin /\ CatalogIdle /\ ThreadsIdle
    /\ fin \in {[fn |-> "jslexer.tokenize", source |-> source, jsx |-> jsx, dotted |-> dotted,
                 template_string |-> template_string, lineno |-> lineno] :
                    source \in JsSources, jsx \in BOOLEAN, dotted \in BOOLEAN,
                    template_string \in BOOLEAN, lineno \in {1, 2}}
    /\ fout = Generator(fin.lineno)

\* the generator tokenize(fin.source, fin.jsx, fin.dotted, fin.template_string,
\* fin.lineno) runs one round of its loop, or ends
TokenizeLoop ==
    /\ fout.state = "running"
    /\ fout' = Resume(fout, SourceOf(fin.source),
                      get_rules(fin.jsx, fin.dotted, fin.template_string))
    /\ UNCHANGED <<fin, twin>>
    /\ UNCHANGED <<catalog_vars, threads>>
    /\ UNCHANGED plural_vars

SpecLexer == InitLexer /\ [][TokenizeLoop]_vars

\* the loop is not held up for ever
SpecLexerFair == InitLexer /\ [][TokenizeLoop]_vars /\ WF_vars(TokenizeLoop)

(***************************************************************************)
(* Properties of PluralRule (under Spec).                                  *)
(***************************************************************************)
\* the tags of the entries of an abstract
AbstractTags(abs_) == {abs_[k][1] : k \in 1..Len(abs_)}

\* an expression text that is empty or whitespace only
Blank(text) == \A k \in 1..Len(text) : text[k] \in SpaceChars

\* the tag of the first entry whose condition is true of n, 'other' if there is none
ExpectedTag(abs_, n) ==
    IF \E k \in 1..Len(abs_) : Holds(abs_[k][2], extract_operands(IntNumber(n)))
      THEN abs_[CHOOSE k \in 1..Len(abs_) :
                    /\ Holds(abs_[k][2], extract_operands(IntNumber(n)))
                    /\ \A j \in 1..(k - 1) : ~Holds(abs_[j][2], extract_operands(IntNumber(n)))][1]
      ELSE tag_other

\* C1: a call returns the tag of the first entry of abstract (in sorted-tag
\* order) whose condition is true of the number, and 'other' if there is none.
C1_FirstMatchWins == ret.op = "call" => ret.ok /\ ret.val = ExpectedTag(abstract, ret.n)

\* whether entry j of the sorted pairs s makes __init__ raise when it is reached
FailsAt(s, j) ==
    \/ s[j][1] \notin _plural_tags
    \/ \E i \in 1..(j - 1) : s[i][1] = s[j][1]
    \/ ~ParserInit(s[j][2]).ok

\* the exception entry j of the sorted pairs s raises
ErrorAt(s, j) ==
    IF s[j][1] \notin _plural_tags THEN Raise("ValueError", "unknown tag", s[j][1])
    ELSE IF \E i \in 1..(j - 1) : s[i][1] = s[j][1]
      THEN Raise("ValueError", "defined twice", s[j][1])
    ELSE ParserInit(s[j][2])

\* the first entry of s that makes __init__ raise
FirstFailure(s) == CHOOSE j \in 1..Len(s) : FailsAt(s, j) /\ \A i \in 1..(j - 1) : ~FailsAt(s, i)

\* the construction failed with the exception e
FailedWith(e) ==
    pc = "failed" /\ ~ret.ok /\ ret.kind = e.kind /\ ret.msg = e.msg /\ ret.text = e.text

\* the tags that occur twice in the constructor argument
DuplicateTags(rs) == {rs[i][1] : i \in {i \in 1..Len(rs) : \E j \in 1..Len(rs) : j # i /\ rs[j][1] = rs[i][1]}}

\* the first entry of s whose tag an earlier entry has
SecondOccurrence(s) ==
    CHOOSE k \in 1..Len(s) :
        /\ \E i \in 1..(k - 1) : s[i][1] = s[k][1]
        /\ \A j \in 1..(k - 1) : \A i \in 1..(j - 1) : s[i][1] # s[j][1]

\* C2 as stated: a constructor argument in which a tag occurs twice fails with a
\* ValueError naming that tag, and no PluralRule is produced.
C2_AsStated ==
    (pc # "new" /\ DuplicateTags(rules) # {}) =>
        pc = "failed" /\ ret.kind = "ValueError" /\ ret.text \in DuplicateTags(rules)

\* C2: a constructor argument in which a tag occurs twice always fails and no
\* PluralRule is produced; the exception is the ValueError 'defined twice' naming
\* the tag, unless an entry before the tag's second occurrence, in sorted order,
\* has an unknown tag or an expression that does not parse: then it is that
\* entry's exception.
C2_DuplicateTagFails ==
    (pc # "new" /\ DuplicateTags(rules) # {}) =>
        /\ pc = "failed"
        /\ FailedWith(ErrorAt(sorted(rules), FirstFailure(sorted(rules))))
        /\ (\A j \in 1..(SecondOccurrence(sorted(rules)) - 1) : ~FailsAt(sorted(rules), j)) =>
               /\ ret.kind = "ValueError" /\ ret.msg = "defined twice"
               /\ ret.text = sorted(rules)[SecondOccurrence(sorted(rules))][1]
               /\ ret.text \in DuplicateTags(rules)

C2_Witness ==
    /\ pc = "failed" /\ ret.msg = "defined twice" /\ ret.text = tag_one
    /\ Len(rules) = 2 /\ rules[1][2] # rules[2][2]

\* the first entry of s whose tag is not in the vocabulary
FirstUnknown(s) ==
    CHOOSE k \in 1..Len(s) :
        s[k][1] \notin _plural_tags /\ \A j \in 1..(k - 1) : s[j][1] \in _plural_tags

UnknownTags(rs) == {rs[i][1] : i \in 1..Len(rs)} \ _plural_tags

\* C3 as stated: a tag outside the vocabulary makes the constructor fail with a
\* RuleError carrying the tag.
C3_AsStated ==
    (pc # "new" /\ UnknownTags(rules) # {}) =>
        pc = "failed" /\ ret.kind = "RuleError" /\ ret.text \in UnknownTags(rules)

\* C3: a tag outside the vocabulary always makes the constructor fail and no
\* PluralRule is produced; the exception is the ValueError 'unknown tag' carrying
\* the tag, unless an entry before it, in sorted order, fails first.
C3_UnknownTagFails ==
    (pc # "new" /\ UnknownTags(rules) # {}) =>
        /\ pc = "failed"
        /\ FailedWith(ErrorAt(sorted(rules), FirstFailure(sorted(rules))))
        /\ (\A j \in 1..(FirstUnknown(sorted(rules)) - 1) : ~FailsAt(sorted(rules), j)) =>
               /\ ret.kind = "ValueError" /\ ret.msg = "unknown tag"
               /\ ret.text = sorted(rules)[FirstUnknown(sorted(rules))][1]

C3_Witness ==
    /\ pc = "failed" /\ ret.kind = "ValueError" /\ ret.msg = "unknown tag"
    /\ ret.text = tag_unknown /\ Len(rules) = 2

\* whether the constructor argument gives the tag a rule that is not blank
HasRuleFor(rs, tag) == \E j \in 1..Len(rs) : rs[j][1] = tag /\ ~Blank(rs[j][2])

\* C4 as stated: no entry of abstract has the tag 'other', tags never contains
\* 'other', and tags is the set of tags of abstract.
C4_AsStated ==
    pc = "built" =>
        /\ tag_other \notin AbstractTags(abstract)
        /\ ret.op = "tags" => tag_other \notin ret.val /\ ret.val = AbstractTags(abstract)

\* C4: tags is exactly the set of tags of the entries of abstract; 'other' is an
\* entry of abstract, and in tags, exactly when the constructor argument gives
\* the tag 'other' an expression that is not blank.
C4_TagsAreAbstractTags ==
    pc = "built" =>
        /\ tag_other \in AbstractTags(abstract) <=> HasRuleFor(rules, tag_other)
        /\ ret.op = "tags" =>
               /\ ret.val = AbstractTags(abstract)
               /\ tag_other \in ret.val <=> HasRuleFor(rules, tag_other)

C4_Witness == pc = "built" /\ ret.op = "tags" /\ tag_other \in ret.val

\* what C5 says of a tag whose expression is blank, but for classification
BlankTagAbsent(tag) ==
    /\ tag \notin AbstractTags(abstract)
    /\ \A k \in 1..Len(abstract) : abstract[k][2] # None
    /\ ret.op = "tags" => tag \notin ret.val
    /\ ret.op = "rules" => \A k \in 1..Len(ret.val) : ret.val[k][1] # tag

\* C5 as stated: a tag whose expression is blank gets no entry in abstract, is
\* absent from tags and rules, and is never returned by a call.
C5_AsStated ==
    pc = "built" =>
        \A j \in 1..Len(rules) :
            Blank(rules[j][2]) =>
                /\ BlankTagAbsent(rules[j][1])
                /\ (ret.op = "call" /\ ret.ok) => ret.val # rules[j][1]

\* C5: a tag whose expression is blank gets no entry in abstract (no entry has a
\* None ast) and is absent from tags and rules; a call never returns it, unless
\* the tag is 'other', which a call returns as the fallback.
C5_BlankExpressionSkipped ==
    pc = "built" =>
        \A j \in 1..Len(rules) :
            Blank(rules[j][2]) =>
                /\ BlankTagAbsent(rules[j][1])
                /\ (ret.op = "call" /\ ret.ok /\ rules[j][1] # tag_other) => ret.val # rules[j][1]

C5_Witness ==
    /\ pc = "built" /\ Len(rules) = 2 /\ Len(abstract) = 1
    /\ \E j \in 1..Len(rules) : rules[j][2] = e_blank /\ rules[j][1] = tag_few
    /\ ret.op = "tags"

\* C9: the rules rendered by the rules property, given to the constructor again,
\* build an abstract equal to the one they were rendered from.
C9_RoundTrip == ret.op = "reparse" => ret.ok /\ ret.val = abstract

C9_Witness ==
    /\ ret.op = "reparse" /\ ret.ok /\ Len(abstract) = 2
    /\ \E k \in 1..Len(abstract) : abstract[k][2][1] = "or"

Ast(text) == ParserInit(text).ast

\* C7: 'A or B and C' parses to or(A, and(B, C)) and 'A and B or C' to
\* or(and(A, B), C), a 'not' of A, B or C staying inside that relation.
C7_OrBindsLoosest ==
    parser.state = "done" =>
        \A a \in RelationTexts, b \in RelationTexts, c \in RelationTexts :
            /\ ptext = OrAnd(a, b, c) =>
                   parser.ok /\ parser.ast = <<"or", Ast(a), <<"and", Ast(b), Ast(c)>>>>
            /\ ptext = AndOr(a, b, c) =>
                   parser.ok /\ parser.ast = <<"or", <<"and", Ast(a), Ast(b)>>, Ast(c)>>

C7_Witness ==
    /\ parser.state = "done" /\ parser.ok
    /\ \E a \in RelationTexts, b \in RelationTexts, c \in RelationTexts : ptext = OrAnd(a, b, c)
    /\ parser.ast[1] = "or" /\ parser.ast[2][1] = "not" /\ parser.ast[3][1] = "and"

\* C8: 'expr = range_list' parses to the ast of 'expr in range_list', and
\* 'expr != range_list' to the ast of 'expr not in range_list'.
C8_SymbolsAreIn ==
    parser.state = "done" =>
        \A e \in ExprTexts, rl \in RangeListTexts :
            /\ ptext = Spaced(e, <<"=">>, rl) =>
                   /\ parser.ok /\ ParserInit(Spaced(e, kw_in, rl)).ok
                   /\ parser.ast = Ast(Spaced(e, kw_in, rl))
            /\ ptext = Spaced(e, <<"!", "=">>, rl) =>
                   /\ parser.ok /\ ParserInit(Spaced(e, kw_not \o sp \o kw_in, rl)).ok
                   /\ parser.ast = Ast(Spaced(e, kw_not \o sp \o kw_in, rl))

C8_Witness ==
    /\ \E e \in ExprTexts, rl \in RangeListTexts : ptext = Spaced(e, <<"!", "=">>, rl)
    /\ parser.state = "done" /\ parser.ok /\ parser.ast[1] = "not"

(***************************************************************************)
(* Properties of cldr_modulo (under SpecModulo).                           *)
(***************************************************************************)
\* C10: cldr_modulo(a, b) is zero or has the sign of the dividend a, and
\* cldr_modulo(-3, 5) = -3, cldr_modulo(-3, -5) = -3, cldr_modulo(3, 5) = 3.
C10_SignOfDividend ==
    mr.done =>
        /\ mr.val = 0 \/ (mr.val < 0 <=> ma < 0)
        /\ (ma = -3 /\ mb = 5) => mr.val = -3
        /\ (ma = -3 /\ mb = -5) => mr.val = -3
        /\ (ma = 3 /\ mb = 5) => mr.val = 3

(***************************************************************************)
(* Properties of in_range_list and within_range_list (under SpecRange).    *)
(***************************************************************************)
\* whether the number has zero fractional part
Integral(num) == Magnitude(num) % Pow10(MaxFraction) = 0

\* num equals a bare entry, or lies in a pair (and, for 'in', is integral)
InSomeItem(num, ranges, integral) ==
    \E k \in 1..Len(ranges) :
        IF ranges[k].bare THEN Value(num) = IntValue(ranges[k].val)
        ELSE /\ IntValue(ranges[k].start) <= Value(num)
             /\ Value(num) <= IntValue(ranges[k].end)
             /\ integral => Integral(num)

\* C11: in_range_list(num, ranges) never raises; it returns True iff num equals
\* a bare entry, or lies in an inclusive pair and has zero fractional part.
C11_InRangeList ==
    fout.in.called => fout.in.ok /\ fout.in.val = InSomeItem(fin.num, fin.ranges, TRUE)

\* C12: within_range_list(num, ranges) returns True iff num equals a bare entry
\* or lies in an inclusive pair, integral or not; whenever in_range_list returns
\* True for the same arguments, so does within_range_list.
C12_WithinRangeList ==
    fout.within.called =>
        /\ fout.within.ok /\ fout.within.val = InSomeItem(fin.num, fin.ranges, FALSE)
        /\ (fout.in.called /\ fout.in.ok /\ fout.in.val) => fout.within.val

\* 1.2 (a float) and a pair it lies in: 'within' is true, 'in' is false
C12_Witness ==
    /\ fout.within.called /\ fout.in.called
    /\ fin.num.kind = "float" /\ fin.num.frac = <<2>>
    /\ \A k \in 1..Len(fin.ranges) : ~fin.ranges[k].bare
    /\ fout.within.val /\ fout.in.ok /\ ~fout.in.val

(***************************************************************************)
(* Properties of extract_operands (under SpecOperands).                    *)
(***************************************************************************)
\* the number of zeros at the end of the decimal digits of x > 0
RECURSIVE TrailingZeros(_)
TrailingZeros(x) == IF x % 10 = 0 THEN 1 + TrailingZeros(x \div 10) ELSE 0

\* C13: extract_operands gives n the absolute value, i its integer part, v and
\* w the numbers of fraction digits with and without trailing zeros, f and t
\* those digits as integers, and c = e = 0; so w <= v, f = t * 10^(v - w), and
\* v = w = f = t = 0 for an int.
C13_Operands ==
    fout.called =>
        LET o == fout.val
        IN  /\ ~o.n.neg /\ Magnitude(o.n) = abs(Value(fin.num))
            /\ IntValue(o.i) <= Magnitude(o.n) /\ Magnitude(o.n) < IntValue(o.i + 1)
            /\ o.v = Len(fin.num.frac)
            /\ o.f < Pow10(o.v)
            /\ Magnitude(o.n) = IntValue(o.i) + o.f * Pow10(MaxFraction - o.v)
            /\ o.w <= o.v
            /\ o.f = o.t * Pow10(o.v - o.w)
            /\ o.w = (IF o.f = 0 THEN 0 ELSE o.v - TrailingZeros(o.f))
            /\ (o.t = 0 \/ o.t % 10 # 0)
            /\ o.c = 0 /\ o.e = 0
            /\ fin.num.kind = "int" => (o.v = 0 /\ o.w = 0 /\ o.f = 0 /\ o.t = 0)

\* a negative Decimal whose fraction ends in a zero after a digit that is not
C13_Witness ==
    /\ fout.called /\ fin.fn = "operands"
    /\ fin.num.kind = "Decimal" /\ fin.num.neg
    /\ fout.val.v = 2 /\ fout.val.w = 1 /\ fout.val.t > 0 /\ fout.val.f = 10 * fout.val.t

(***************************************************************************)
(* Properties of to_gettext and to_javascript (under SpecRender).          *)
(***************************************************************************)
\* the abstract of the rule given to the rendering functions
RenderAbstract == PluralRuleInit(fin.rule).abstract

\* '<e0> ? 0 : <e1> ? 1 : ... ' from entry k on, <ej> being the gettext
\* rendering of entry j, which has its own pair of parentheses
RECURSIVE GettextChain(_, _)
GettextChain(abs_, k) ==
    IF k > Len(abs_) THEN <<>>
    ELSE Compile("gettext", abs_[k][2]) \o <<" ", "?", " ">> \o str(k - 1) \o <<" ", ":", " ">>
         \o GettextChain(abs_, k + 1)

\* the rule of to_gettext's docstring: {'one': 'n is 1', 'two': 'n is 2'}
GettextExample == <<<<tag_one, e_is1>>, <<tag_two, e_is2>>>>

\* C14: to_gettext returns 'nplurals=<k+1>; plural=(<e0> ? 0 : ... : <k>);',
\* each condition in exactly one pair of parentheses; {'one': 'n is 1',
\* 'two': 'n is 2'} gives 'nplurals=3; plural=((n == 1) ? 0 : (n == 2) ? 1 : 2);'.
C14_Gettext ==
    (fout.gettext.called /\ PluralRuleInit(fin.rule).ok) =>
        /\ fout.gettext.ok
        /\ fout.gettext.val =
               <<"n", "p", "l", "u", "r", "a", "l", "s", "=">> \o str(Len(RenderAbstract) + 1) \o <<";", " ", "p", "l", "u", "r", "a", "l", "=", "(">>
               \o GettextChain(RenderAbstract, 1) \o str(Len(RenderAbstract)) \o <<")", ";">>
        /\ fin.rule = GettextExample =>
               fout.gettext.val = <<"n", "p", "l", "u", "r", "a", "l", "s", "=", "3", ";", " ", "p", "l", "u", "r", "a", "l", "=", "(", "(", "n", " ", "=", "=", " ", "1", ")", " ", "?", " ", "0", " ", ":", " ", "(", "n", " ", "=", "=", " ", "2", ")", " ", "?", " ", "1", " ", ":", " ", "2", ")", ";">>

\* "(<e0>) ? 'tag0' : (<e1>) ? 'tag1' : ... " from entry k on, <ej> being the
\* condition of entry j without the parentheses around the whole of it
RECURSIVE JavaScriptChain(_, _)
JavaScriptChain(abs_, k) ==
    IF k > Len(abs_) THEN <<>>
    ELSE Compile("javascript", abs_[k][2]) \o <<" ", "?", " ", "'">> \o abs_[k][1] \o <<"'", " ", ":", " ">>
         \o JavaScriptChain(abs_, k + 1)

\* the rule of to_javascript's docstring: {'one': 'n is 1'}
JavaScriptExample == <<<<tag_one, e_is1>>>>

\* C15: to_javascript returns "(function(n) { return (<e0>) ? 'tag0' : ...
\* 'other'; })", the clauses separated by single spaces; {'one': 'n is 1'} gives
\* "(function(n) { return (n == 1) ? 'one' : 'other'; })".
C15_JavaScript ==
    (fout.javascript.called /\ PluralRuleInit(fin.rule).ok) =>
        /\ fout.javascript.ok
        /\ fout.javascript.val =
               <<"(", "f", "u", "n", "c", "t", "i", "o", "n", "(", "n", ")", " ", "{", " ", "r", "e", "t", "u", "r", "n", " ">>
               \o JavaScriptChain(RenderAbstract, 1) \o <<"'", "o", "t", "h", "e", "r", "'">> \o <<";", " ", "}", ")">>
        /\ fin.rule = JavaScriptExample =>
               fout.javascript.val = <<"(", "f", "u", "n", "c", "t", "i", "o", "n", "(", "n", ")", " ", "{", " ", "r", "e", "t", "u", "r", "n", " ", "(", "n", " ", "=", "=", " ", "1", ")", " ", "?", " ", "'", "o", "n", "e", "'", " ", ":", " ", "'", "o", "t", "h", "e", "r", "'", ";", " ", "}", ")">>

C17_CompiledOnce ==
    /\ [](ret.op = "call" => ret.ok /\ func.set)
    /\ [][/\ func.set => func' = func
          /\ pc = "built" => abstract' = abstract
          /\ (ret.op = "call" /\ ret'.op = "call" /\ ret.ok /\ ret'.ok /\ ret'.n = ret.n) =>
                 ret'.val = ret.val]_vars

(***************************************************************************)
(* Properties of a Catalog (under SpecCatalog).                            *)
(***************************************************************************)
\* the items of new that are not in old, in the order of new
NotAlreadyIn(old, new) ==
    SelectSeq(new, LAMBDA item : \A k \in 1..Len(old) : old[k] # item)

\* whether the last operation was catalog.add or catalog[id] = message
Assigned(c) == c.op \in {"add", "setitem"}

\* C18: assigning or adding a message whose key is already in the catalog makes
\* no second entry: the call returns, len(catalog) and the order of the keys
\* stay as they were, and the message stored under the key has its former
\* locations, in order, followed by those of the new message that were not yet
\* among them, and as flags the union of its former flags and the new ones.
C18_MergeOnSameKey ==
    [][(Assigned(cret') /\ DictHas(catalog.messages,
                                   _key_for(cret'.id, cret'.message.context)))
       => LET key == _key_for(cret'.id, cret'.message.context)
              was == DictGet(catalog.messages, key)
              now == DictGet(catalog'.messages, key)
          IN /\ cret'.ok
             /\ len(catalog') = len(catalog)
             /\ DictKeys(catalog'.messages) = DictKeys(catalog.messages)
             /\ Cardinality({k \in 1..Len(catalog'.messages) :
                                catalog'.messages[k].key = key}) = 1
             /\ now.locations
                  = was.locations \o NotAlreadyIn(was.locations, cret'.message.locations)
             /\ now.flags = was.flags \cup cret'.message.flags]_vars

\* a message with locations [utils.py:5, main.py:1] and the flag fuzzy was added
\* under the key of a stored message with location [main.py:1] and the flag x
C18_Witness ==
    /\ Assigned(cret)
    /\ cret.message.locations = <<loc_utils, loc_main>>
    /\ cret.message.flags = {"fuzzy"}
    /\ len(catalog) = 1
    /\ catalog.messages[1].key = _key_for(cret.id, cret.message.context)
    /\ catalog.messages[1].val.locations = <<loc_main, loc_utils>>
    /\ catalog.messages[1].val.flags = {"x", "fuzzy"}

\* the keys of the stored messages, in the order of iteration
StoredKeys(cat) == DictKeys(cat.messages)

\* the keys that update takes from a template: those of its messages with an id
TemplateKeys(template) ==
    LET with_id == SelectSeq(IterStored(template), LAMBDA message : Truthy(message.id))
    IN [k \in 1..Len(with_id) |-> _key_for(with_id[k].id, with_id[k].context)]

\* seq without its items equal to item
Without(seq, item) == SelectSeq(seq, LAMBDA x : x # item)

IsHeaderId(id) == id.type = "str" /\ id.s = <<>>

\* len counts the stored messages, and iteration yields one header message with
\* id "" and then the stored messages
HeaderThenStored ==
    LET yielded == iter(catalog)
    IN /\ len(catalog) = Len(yielded) - 1
       /\ IsHeaderId(yielded[1].id)
       /\ \A k \in 1..len(catalog) : yielded[k + 1] = catalog.messages[k].val

\* C19 as stated: len(catalog) counts the stored messages and not the header,
\* and iteration yields the header and then the stored messages in the order
\* in which their keys were first added to the catalog.
C19_AsStated ==
    /\ HeaderThenStored
    /\ StoredKeys(catalog)
         = SelectSeq(added, LAMBDA key : DictHas(catalog.messages, key))

\* how one operation changes the order of the stored keys
KeyOrderStep ==
    LET was == StoredKeys(catalog)
        now == StoredKeys(catalog')
    IN /\ Assigned(cret') =>
            LET key == _key_for(cret'.id, cret'.message.context)
            IN /\ IsHeaderId(cret'.id) => len(catalog') = len(catalog)
               /\ now = IF DictHas(catalog.messages, key) \/ IsHeaderId(cret'.id) \/ ~cret'.ok
                        THEN was ELSE Append(was, key)
       /\ cret'.op = "delete" => now = Without(was, _key_for(cret'.id, cret'.context))
       /\ cret'.op = "update" =>
            /\ Len(now) <= Len(TemplateKeys(cret'.template))
            /\ now = SubSeq(TemplateKeys(cret'.template), 1, Len(now))
            /\ cret'.ok => now = TemplateKeys(cret'.template)

\* C19: after any operations len(catalog) counts the stored messages and not the
\* header (adding a message with id "" leaves len as it is), and iteration
\* yields one header message with id "" and then the stored messages in the
\* order of the main collection: a key stored anew goes to the end, even if it
\* was stored and deleted before; a merge keeps the key's place; delete removes
\* the key; update leaves the keys of the template in template order.
C19_IterationOrder == []HeaderThenStored /\ [][KeyOrderStep]_vars

\* update has put the key abc, added second, before the key Ab, added first
C19_Witness ==
    /\ cret.op = "update" /\ cret.ok
    /\ added = <<PyStr(id_Ab), PyStr(id_abc)>>
    /\ StoredKeys(catalog) = <<PyStr(id_abc), PyStr(id_Ab)>>
    /\ IsHeaderId(iter(catalog)[1].id)

\* whether key is one of the keys of seq
IsKeyOf(key, seq) == \E k \in 1..Len(seq) : seq[k] = key

\* C20: after catalog.update(template), with or without fuzzy matching, every
\* message that was in the catalog before the call under a key that is not a
\* key of the template is out of the main collection and is in catalog.obsolete
\* under its old key.
C20_ObsoleteAfterUpdate ==
    [][cret'.op = "update"
       => \A k \in 1..Len(catalog.messages) :
             ~IsKeyOf(catalog.messages[k].key, TemplateKeys(cret'.template))
             => /\ ~DictHas(catalog'.messages, catalog.messages[k].key)
                /\ DictHas(catalog'.obsolete, catalog.messages[k].key)
                /\ DictGet(catalog'.obsolete, catalog.messages[k].key)
                     = catalog.messages[k].val]_vars

\* C21: after catalog.update(template) returns, the keys of the stored messages
\* are the keys of the template's messages with a non-empty id, in template
\* order, and len(catalog) is len(template); a message whose key was in both has
\* the string it had in the catalog and the locations of the template's
\* message; a message only in the template has the template's string.
C21_UpdateFollowsTemplate ==
    [][(cret'.op = "update" /\ cret'.ok)
       => /\ StoredKeys(catalog') = TemplateKeys(cret'.template)
          /\ len(catalog') = len(cret'.template)
          /\ \A k \in 1..Len(cret'.template.messages) :
                LET given == cret'.template.messages[k].val
                    key == _key_for(given.id, given.context)
                    now == DictGet(catalog'.messages, key)
                IN IF DictHas(catalog.messages, key)
                   THEN /\ now.string = DictGet(catalog.messages, key).string
                        /\ now.locations = given.locations
                   ELSE now.string = given.string]_vars

\* update returned on a catalog that held Ab with the string 't' and the location
\* main.py:1, with a template of abc and Ab (Ab at utils.py:5)
C21_Witness ==
    /\ cret.op = "update" /\ cret.ok
    /\ StoredKeys(cret.template) = <<PyStr(id_abc), PyStr(id_Ab)>>
    /\ StoredKeys(catalog) = <<PyStr(id_abc), PyStr(id_Ab)>>
    /\ catalog.messages[2].val.string = PyStr(text_t)
    /\ catalog.messages[2].val.locations = <<loc_utils>>
    /\ catalog.messages[1].val.string = PyNone

\* whether d holds message under key; update may have given it new locations
HeldUnder(d, key, message) ==
    /\ DictHas(d, key)
    /\ [DictGet(d, key) EXCEPT !.locations = <<>>] = [message EXCEPT !.locations = <<>>]

\* C28: update loses no message: whether the call returns or raises, and whether
\* or not a fuzzy match is found, every message stored in the catalog before
\* the call is afterwards held in the main collection or in catalog.obsolete
\* (in exactly one of them, so in at least one).
C28_NoMessageLost ==
    [][cret'.op = "update"
       => \A k \in 1..Len(catalog.messages) :
             \/ HeldUnder(catalog'.messages, catalog.messages[k].key,
                          catalog.messages[k].val)
             \/ HeldUnder(catalog'.obsolete, catalog.messages[k].key,
                          catalog.messages[k].val)]_vars

(***************************************************************************)
(* Properties of a Catalog under add and __setitem__ (under SpecAssign).   *)
(***************************************************************************)
\* every stored message has the flag python-format iff its id (one of its ids
\* when pluralizable) holds a Python format placeholder
FlagsFollowIds(cat) ==
    \A k \in 1..Len(cat.messages) :
        ("python-format" \in cat.messages[k].val.flags)
        <=> python_format(cat.messages[k].val.id)

\* C27: after any sequence of add and __setitem__ operations, merges into a
\* stored entry included, every stored message has the flag python-format iff
\* its current id (one of its ids when pluralizable) holds a Python format
\* placeholder.
C27_FlagsFollowIds == FlagsFollowIds(catalog)

(***************************************************************************)
(* Properties of tokenize_rule (under SpecTokenize).                       *)
(***************************************************************************)
\* whether the characters of text from position from to position to are spaces
OnlySpace(text, from, to) == \A q \in from..to : text[q] \in SpaceChars

\* the position of the last character of token tok, <<type, text, position>>
TokenEnd(tok) == tok[3] + Len(tok[2])

\* whether type and size are the match of the first pattern, in the order
\* whitespace, word, value, symbol, ellipsis, that matches text at p
FirstInPriority(text, p, type, size) ==
    \E k \in 2..5 : /\ _RULES(k, text, p) = <<type, size>>
                    /\ size > 0
                    /\ \A j \in 1..(k - 1) : _RULES(j, text, p)[2] = 0

\* the tokens are in source order, each the text at its position, of the first
\* pattern that matches there, and all that is between and around them is space
Tiles(text, toks) ==
    /\ \A k \in 1..Len(toks) :
          /\ toks[k][2] = SubSeq(text, toks[k][3] + 1, TokenEnd(toks[k]))
          /\ FirstInPriority(text, toks[k][3] + 1, toks[k][1], Len(toks[k][2]))
          /\ OnlySpace(text, IF k = 1 THEN 1 ELSE TokenEnd(toks[k - 1]) + 1, toks[k][3])
    /\ OnlySpace(text, IF toks = <<>> THEN 1 ELSE TokenEnd(toks[Len(toks)]) + 1, Len(text))

\* the error names the first position that no pattern matches, and its character
Stuck(text, err) ==
    /\ err.kind = "TokenizeError"
    /\ err.pos \in 0..(Len(text) - 1)
    /\ err.text = <<text[err.pos + 1]>>
    /\ \A k \in 1..5 : _RULES(k, text, err.pos + 1)[2] = 0
    /\ tokenize_rule(SubSeq(text, 1, err.pos)).ok

C22_WitnessError ==
    /\ fout.called /\ ~fout.res.ok
    /\ fin.text = <<" ", "n", "@">>
    /\ fout.res.pos = 2 /\ fout.res.text = <<"@">>

(***************************************************************************)
(* Properties of the gettext and JavaScript compilers (under SpecCompile). *)
(***************************************************************************)
\* the C-style text of a node: v, w, f, t as 0, i as the text i_text, the other
\* operands as their names, and && || ! == != % in parentheses
RECURSIVE CStyle(_, _)
CStyle(ast, i_text) ==
    LET op == ast[1]
        l == CStyle(ast[2], i_text)
        r == CStyle(ast[3], i_text)
    IN CASE op \in {"v", "w", "f", "t"} -> <<"0">>
         [] op = "i" -> i_text
         [] op \in {"n", "c", "e"} -> <<op>>
         [] op = "value" -> <<Digits[ast[2] + 1]>>
         [] op = "not" -> <<"(", "!">> \o l \o <<")">>
         [] op = "mod" -> <<"(">> \o l \o <<" ", "%", " ">> \o r \o <<")">>
         [] op = "is" -> <<"(">> \o l \o <<" ", "=", "=", " ">> \o r \o <<")">>
         [] op = "isnot" -> <<"(">> \o l \o <<" ", "!", "=", " ">> \o r \o <<")">>
         [] op = "and" -> <<"(">> \o l \o <<" ", "&", "&", " ">> \o r \o <<")">>
         [] op = "or" -> <<"(">> \o l \o <<" ", "|", "|", " ">> \o r \o <<")">>

\* C23: the gettext compiler renders v, w, f, t as '0' and i as 'n'; the
\* JavaScript compiler renders v, w, f, t as '0' and i as 'parseInt(n, 10)';
\* every other node renders the same in both: &&, ||, !, ==, != and infix %.
C23_OperandsCollapse ==
    /\ fout.gettext.called => fout.gettext.val = CStyle(fin.ast, <<"n">>)
    /\ fout.javascript.called =>
           fout.javascript.val =
               CStyle(fin.ast, <<"p", "a", "r", "s", "e", "I", "n", "t", "(", "n", ",", " ", "1", "0", ")">>)

\* 'i is 1 and v is 1' was rendered by both compilers
C23_Witness ==
    /\ fout.gettext.called /\ fout.javascript.called
    /\ fin.ast = <<"and", <<"is", <<"i">>, <<"value", 1>>>>, <<"is", <<"v">>, <<"value", 1>>>>>>
    /\ fout.gettext.val # fout.javascript.val

(***************************************************************************)
(* Properties of two threads on one PluralRule instance (under             *)
(* SpecThreads).                                                           *)
(***************************************************************************)
\* what the call rule(n) gives on an instance that nothing else uses
Sequential(abs_, n) ==
    LET f == to_python(abs_)
    IN IF f.ok THEN [op |-> "call", ok |-> TRUE, val |-> plural(f, n)]
       ELSE Outcome("call", f, <<>>)

Yields == Len(fout'.tokens) = Len(fout.tokens) + 1

\* C25: every token yielded has as lineno the starting line number plus the
\* number of line breaks in the source before the first character of the token,
\* be they in white space, in comments or in earlier string tokens.
C25_LinenoCountsBreaksBefore ==
    [][Yields =>
          fout'.tokens[Len(fout'.tokens)].lineno =
              fin.lineno + LineBreaks(SubSeq(SourceOf(fin.source), 1, fout.pos))]_vars

\* C26: for every source and every combination of jsx, dotted and
\* template_string, tokenize ends without raising; each round of the loop
\* advances the position by at least one character, and a character that no
\* rule matches is yielded as an 'operator' token of that one character.
C26_TerminatesWithoutRaising ==
    /\ [](fout.state # "raised")
    /\ [][fout'.state = "running" =>
             /\ fout'.pos > fout.pos
             /\ FirstRule(get_rules(fin.jsx, fin.dotted, fin.template_string),
                          SourceOf(fin.source), fout.pos) = 0 =>
                    /\ Yields
                    /\ fout'.pos = fout.pos + 1
                    /\ fout'.tokens[Len(fout'.tokens)] =
                           Token("operator", <<SourceOf(fin.source)[fout'.pos]>>, fout.lineno)]_vars
    /\ <>(fout.state = "done")

====
